---------------------------- MODULE Spec2Model ----------------------------
(***************************************************************************)
(* X12 EDI tokenizer, format detector, structural validator and business  *)
(* extractor of the EDI viewer (src/utils/ediParser.ts,                    *)
(* src/utils/universalEDIParser.ts, src/utils/ediValidator.ts).            *)
(*                                                                         *)
(* A JavaScript string is a sequence of one-character strings; a missing  *)
(* array entry or object field (undefined) is the value Undefined.         *)
(***************************************************************************)
EXTENDS Integers, Sequences, FiniteSets, TLC

VARIABLES
    content,      \* the text handed to parseEDIContent
    parsed,       \* the EDITransaction it returned (NotRun before the call)
    parser,       \* which parseEDIContent ran: "none", "universal", "legacy"
    transaction,  \* the EDITransaction handed to validateEDITransaction or to
                  \* process834Transaction
    validation,   \* the ValidationResult it returned (NotRun before the call)
    segments,     \* the segment stream handed to an extractor
    extracted,    \* what the extractor returned (NotRun before the call)
    extractor,    \* which extractor ran: "none", "834", "820"
    json,         \* what convertEDIToJSON returned for parsed (NotRun before the call)
    rebuilt,      \* the text convertJSONToEDI returned for json
    reparsed,     \* what convertEDIToJSON returned for the parse of rebuilt
    stage,        \* how far the round trip went: "none", "json", "edi", "again"
    registry,     \* this.members of the MemberLifecycleTracker, in insertion order
    result,       \* the outcome of the last process834Transaction (NotRun before)
    clock,        \* the system clock, in days
    calls,        \* the number of process834Transaction calls so far
    ids,          \* the number of ids generateId has returned so far
    pipeline,     \* per file of a viewer session: its content and what parse,
                  \* validate and extract returned for it
    files,        \* the edi_files rows, by id
    rows,         \* the edi_transactions, edi_members and edi_payments rows
    inv           \* the invocations of the process-edi-file handler

vars == <<content, parsed, parser, transaction, validation, segments, extracted, extractor,
          json, rebuilt, reparsed, stage, registry, result, clock, calls, ids,
          pipeline, files, rows, inv>>

tokVars == <<content, parsed, parser>>
valVars == <<transaction, validation>>
extVars == <<segments, extracted, extractor>>
rtVars  == <<json, rebuilt, reparsed, stage>>
trkVars == <<registry, result, clock, calls, ids>>
svcVars == <<pipeline, files, rows, inv>>

\* The value of a JavaScript array entry or object field that is not there.
Undefined == <<"<undefined>">>

\* The value of a result variable before its call has run.
NotRun == [run |-> FALSE]

\* No round trip has started.
IdleRoundTrip ==
    /\ json = NotRun
    /\ rebuilt = <<>>
    /\ reparsed = NotRun
    /\ stage = "none"

\* A tracker just constructed: the registry is empty.
IdleTracker ==
    /\ registry = <<>>
    /\ result = NotRun
    /\ clock = 0
    /\ calls = 0
    /\ ids = 0

\* No file is open in a viewer session and the database is empty.
IdleService ==
    /\ pipeline = <<>>
    /\ files = <<>>
    /\ rows = [transactions |-> <<>>, members |-> <<>>, payments |-> <<>>]
    /\ inv = <<>>

-----------------------------------------------------------------------------
(* Bounds of the model.                                                    *)

\* Longest input text of the tokenizer, in characters.
MaxLen == 4

\* The characters input texts are made of: a tag letter, the three
\* delimiters, a blank, and the two line-ending characters.
Alphabet == {"A", "*", "~", "^", " ", "\r", "\n"}

-----------------------------------------------------------------------------
(* String helpers: String.prototype.trim, split, includes, toLowerCase.    *)

\* The white space String.prototype.trim removes (of the characters used).
WhiteSpace == {" ", "\t", "\r", "\n"}

Digits == {"0", "1", "2", "3", "4", "5", "6", "7", "8", "9"}

\* trim() that forgets the carriage return.
TrimSpacesOnly(s) ==
    LET keep == {i \in 1..Len(s) : s[i] # " "}
    IN  IF keep = {} THEN <<>>
        ELSE SubSeq(s, CHOOSE i \in keep : \A j \in keep : i <= j,
                       CHOOSE i \in keep : \A j \in keep : i >= j)

\* line.trim()
Trim(s) ==
    LET keep == {i \in 1..Len(s) : s[i] \notin WhiteSpace}
    IN  IF keep = {} THEN <<>>
        ELSE SubSeq(s, CHOOSE i \in keep : \A j \in keep : i <= j,
                       CHOOSE i \in keep : \A j \in keep : i >= j)

\* content.split(/\r?\n/): the text between line endings, a CR that stands
\* right before an LF belonging to the line ending.
RECURSIVE SplitLines(_)
SplitLines(s) ==
    IF \E i \in 1..Len(s) : s[i] = "\n"
    THEN LET i == CHOOSE k \in 1..Len(s) :
                      s[k] = "\n" /\ \A j \in 1..(k-1) : s[j] # "\n"
             e == IF i > 1 /\ s[i-1] = "\r" THEN i - 2 ELSE i - 1
         IN  <<SubSeq(s, 1, e)>> \o SplitLines(SubSeq(s, i + 1, Len(s)))
    ELSE <<s>>

\* A split that drops the empty fields.
RECURSIVE SplitByDropEmpty(_, _)
SplitByDropEmpty(s, D) ==
    IF \E i \in 1..Len(s) : s[i] \in D
    THEN LET i == CHOOSE k \in 1..Len(s) :
                      s[k] \in D /\ \A j \in 1..(k-1) : s[j] \notin D
             rest == SplitByDropEmpty(SubSeq(s, i + 1, Len(s)), D)
         IN  IF i = 1 THEN rest ELSE <<SubSeq(s, 1, i - 1)>> \o rest
    ELSE IF s = <<>> THEN <<>> ELSE <<s>>

\* str.split(/[D]/) for a class D of single characters: every field, the
\* empty ones included.
RECURSIVE SplitBy(_, _)
SplitBy(s, D) ==
    IF \E i \in 1..Len(s) : s[i] \in D
    THEN LET i == CHOOSE k \in 1..Len(s) :
                      s[k] \in D /\ \A j \in 1..(k-1) : s[j] \notin D
         IN  <<SubSeq(s, 1, i - 1)>> \o SplitBy(SubSeq(s, i + 1, Len(s)), D)
    ELSE <<s>>

\* pat occurs in s at position i
OccursAt(s, pat, i) ==
    /\ i >= 1
    /\ i + Len(pat) - 1 <= Len(s)
    /\ \A k \in 1..Len(pat) : s[i + k - 1] = pat[k]

\* s.includes(pat)
Includes(s, pat) == \E i \in 1..(Len(s) + 1) : OccursAt(s, pat, i)

UpperCase ==
    <<"A", "B", "C", "D", "E", "F", "G", "H", "I", "J", "K", "L", "M",
      "N", "O", "P", "Q", "R", "S", "T", "U", "V", "W", "X", "Y", "Z">>
LowerCase ==
    <<"a", "b", "c", "d", "e", "f", "g", "h", "i", "j", "k", "l", "m",
      "n", "o", "p", "q", "r", "s", "t", "u", "v", "w", "x", "y", "z">>

\* s.toLowerCase()
ToLowerCase(s) ==
    [i \in 1..Len(s) |->
        IF \E k \in 1..26 : UpperCase[k] = s[i]
        THEN LowerCase[CHOOSE k \in 1..26 : UpperCase[k] = s[i]]
        ELSE s[i]]

\* arr[i] of a JavaScript array, i counted from 0
At(arr, i) == IF i + 1 <= Len(arr) THEN arr[i + 1] ELSE Undefined

\* v || dflt for a string or undefined
OrElse(v, dflt) == IF v = Undefined \/ v = <<>> THEN dflt ELSE v

-----------------------------------------------------------------------------
(* Segment tags and the static format table.                               *)

ISA == <<"I", "S", "A">>
IEA == <<"I", "E", "A">>
GS  == <<"G", "S">>
GE  == <<"G", "E">>
ST  == <<"S", "T">>
SE  == <<"S", "E">>
BGN == <<"B", "G", "N">>
N1  == <<"N", "1">>
INS == <<"I", "N", "S">>
NM1 == <<"N", "M", "1">>
DMG == <<"D", "M", "G">>
DTP == <<"D", "T", "P">>
HD  == <<"H", "D">>
BPR == <<"B", "P", "R">>
RMR == <<"R", "M", "R">>

T834 == <<"8", "3", "4">>
T820 == <<"8", "2", "0">>
T837 == <<"8", "3", "7">>
T835 == <<"8", "3", "5">>
T271 == <<"2", "7", "1">>
T850 == <<"8", "5", "0">>
T855 == <<"8", "5", "5">>
T856 == <<"8", "5", "6">>
T810 == <<"8", "1", "0">>
Unknown == <<"u", "n", "k", "n", "o", "w", "n">>

\* the keys of X12_FORMATS
FormatCodes == {T834, T820, T837, T835, <<"2", "7", "0">>, T271, <<"2", "7", "8">>, <<"9", "9", "9">>, T850, T855, T856, T810}

\* X12_FORMATS[code].requiredSegments
X12_FORMATS(code) ==
    CASE code = T834 -> <<ISA, GS, ST, BGN, N1, INS, NM1, SE, GE, IEA>>
      [] code = T820 -> <<ISA, GS, ST, BPR, N1, SE, GE, IEA>>
      [] code = T837 -> <<ISA, GS, ST, <<"B", "H", "T">>, NM1, <<"C", "L", "M">>, SE, GE, IEA>>
      [] code = T835 -> <<ISA, GS, ST, BPR, N1, <<"C", "L", "P">>, SE, GE, IEA>>
      [] code = <<"2", "7", "0">> -> <<ISA, GS, ST, <<"B", "H", "T">>, <<"H", "L">>, NM1, SE, GE, IEA>>
      [] code = T271 -> <<ISA, GS, ST, <<"B", "H", "T">>, <<"H", "L">>, NM1, <<"E", "B">>, SE, GE, IEA>>
      [] code = <<"2", "7", "8">> -> <<ISA, GS, ST, <<"B", "H", "T">>, <<"H", "L">>, NM1, SE, GE, IEA>>
      [] code = <<"9", "9", "9">> -> <<ISA, GS, ST, <<"A", "K", "1">>, <<"A", "K", "9">>, SE, GE, IEA>>
      [] code = T850 -> <<ISA, GS, ST, <<"B", "E", "G">>, N1, <<"P", "O", "1">>, SE, GE, IEA>>
      [] code = T855 -> <<ISA, GS, ST, <<"B", "A", "K">>, N1, <<"P", "O", "1">>, <<"A", "C", "K">>, SE, GE, IEA>>
      [] code = T856 -> <<ISA, GS, ST, <<"B", "S", "N">>, <<"H", "L">>, <<"T", "D", "1">>, SE, GE, IEA>>
      [] code = T810 -> <<ISA, GS, ST, <<"B", "I", "G">>, N1, <<"I", "T", "1">>, SE, GE, IEA>>

\* the keys of SEGMENT_DEFINITIONS
SEGMENT_DEFINITIONS ==
    {ISA, IEA, GS, GE, ST, SE,
     BGN, <<"B", "H", "T">>, INS, NM1, N1, <<"N", "3">>, <<"N", "4">>, DMG, HD, DTP, <<"R", "E", "F">>, <<"P", "E", "R">>,
     <<"E", "B">>, <<"C", "L", "P">>, BPR, <<"T", "R", "N">>, <<"Q", "T", "Y">>, <<"A", "M", "T">>, <<"H", "L">>,
     <<"A", "K", "1">>, <<"A", "K", "9">>, <<"T", "A", "1">>,
     <<"B", "E", "G">>, <<"B", "A", "K">>, <<"B", "S", "N">>, <<"B", "I", "G">>, <<"P", "O", "1">>, <<"A", "C", "K">>, <<"I", "T", "1">>, <<"T", "D", "1">>,
     RMR, <<"D", "T", "M">>, <<"E", "N", "T">>}

-----------------------------------------------------------------------------
(* Format detection.                                                       *)

\* line.match(/ST\*(\d{3})/): the three digits of the leftmost match, or
\* Undefined when the line has none.
StMatch(line) ==
    LET hits == {i \in 1..Len(line) :
                    /\ OccursAt(line, <<"S", "T", "*">>, i)
                    /\ i + 5 <= Len(line)
                    /\ \A k \in 3..5 : line[i + k] \in Digits}
    IN  IF hits = {} THEN Undefined
        ELSE LET i == CHOOSE h \in hits : \A g \in hits : h <= g
             IN  SubSeq(line, i + 3, i + 5)

\* the loop over the lines: the code of the first line whose leftmost
\* ST*ddd names a supported format
RECURSIVE DetectByHeader(_)
DetectByHeader(lines) ==
    IF lines = <<>> THEN Undefined
    ELSE IF StMatch(Head(lines)) \in FormatCodes THEN StMatch(Head(lines))
    ELSE DetectByHeader(Tail(lines))

\* the fallback with the pair of 835 tried before the one of 820
DetectByPatternClpFirst(contentStr) ==
    LET both(a, b) == Includes(contentStr, a) /\ Includes(contentStr, b)
    IN  CASE both(<<"b", "g", "n", "*">>, <<"i", "n", "s", "*">>) -> T834
          [] both(<<"b", "p", "r", "*">>, <<"c", "l", "p", "*">>) -> T835
          [] both(<<"b", "p", "r", "*">>, <<"r", "m", "r", "*">>) -> T820
          [] both(<<"b", "h", "t", "*">>, <<"c", "l", "m", "*">>) -> T837
          [] both(<<"b", "h", "t", "*">>, <<"e", "b", "*">>)  -> T271
          [] both(<<"b", "e", "g", "*">>, <<"p", "o", "1", "*">>) -> T850
          [] both(<<"b", "a", "k", "*">>, <<"a", "c", "k", "*">>) -> T855
          [] both(<<"b", "s", "n", "*">>, <<"t", "d", "1", "*">>) -> T856
          [] both(<<"b", "i", "g", "*">>, <<"i", "t", "1", "*">>) -> T810
          [] OTHER -> Unknown

\* the fallback: the first pair of markers both found in the lower-cased text
DetectByPattern(contentStr) ==
    LET both(a, b) == Includes(contentStr, a) /\ Includes(contentStr, b)
    IN  CASE both(<<"b", "g", "n", "*">>, <<"i", "n", "s", "*">>) -> T834
          [] both(<<"b", "p", "r", "*">>, <<"r", "m", "r", "*">>) -> T820
          [] both(<<"b", "h", "t", "*">>, <<"c", "l", "m", "*">>) -> T837
          [] both(<<"b", "p", "r", "*">>, <<"c", "l", "p", "*">>) -> T835
          [] both(<<"b", "h", "t", "*">>, <<"e", "b", "*">>)  -> T271
          [] both(<<"b", "e", "g", "*">>, <<"p", "o", "1", "*">>) -> T850
          [] both(<<"b", "a", "k", "*">>, <<"a", "c", "k", "*">>) -> T855
          [] both(<<"b", "s", "n", "*">>, <<"t", "d", "1", "*">>) -> T856
          [] both(<<"b", "i", "g", "*">>, <<"i", "t", "1", "*">>) -> T810
          [] OTHER -> Unknown

\* detectEDIFormat(content)
detectEDIFormat(text) ==
    LET byHeader == DetectByHeader(SplitLines(text))
    IN  IF byHeader # Undefined THEN byHeader
        ELSE DetectByPattern(ToLowerCase(text))

\* detectEDIType(content) of the legacy parser
RECURSIVE DetectTypeLines(_)
DetectTypeLines(lines) ==
    IF lines = <<>> THEN Unknown
    ELSE IF Includes(Head(lines), <<"S", "T", "*", "8", "3", "4">>) THEN T834
    ELSE IF Includes(Head(lines), <<"S", "T", "*", "8", "2", "0">>) THEN T820
    ELSE DetectTypeLines(Tail(lines))

detectEDIType(text) == DetectTypeLines(SplitLines(text))

-----------------------------------------------------------------------------
(* The two tokenizers.                                                     *)

\* the delimiter class of the universal parser, /[\*~\^]/
UniversalDelimiters == {"*", "~", "^"}

\* the delimiter class of the legacy parser, /[\*~]/
LegacyDelimiters == {"*", "~"}

\* the fewest entries of an ISA's elements for the universal parser to take
\* the metadata from it
UniversalIsaLength == 16

\* the same for the legacy parser
LegacyIsaLength == 13

EmptyString == <<>>

\* content.split(/\r?\n/).filter(line => line.trim())
NonBlankLines(text) == SelectSeq(SplitLines(text), LAMBDA line : Trim(line) # EmptyString)

\* the segment pushed for a line
LineSegment(trimmedLine, index, D) ==
    LET elements == SplitBy(trimmedLine, D)
    IN  [tag        |-> OrElse(At(elements, 0), EmptyString),
         elements   |-> elements,
         raw        |-> trimmedLine,
         lineNumber |-> index + 1]

\* lines.forEach((line, index) => ...), from position index on
RECURSIVE Tokenize(_, _, _)
Tokenize(lines, index, D) ==
    IF index >= Len(lines) THEN <<>>
    ELSE LET trimmedLine == Trim(lines[index + 1])
         IN  IF trimmedLine = EmptyString
             THEN Tokenize(lines, index + 1, D)
             ELSE <<LineSegment(trimmedLine, index, D)>> \o Tokenize(lines, index + 1, D)

\* the metadata of the universal parser before any ISA segment is seen
EmptyMetadata ==
    [sender |-> EmptyString, receiver |-> EmptyString, date |-> EmptyString,
     controlNumber |-> EmptyString, version |-> EmptyString,
     testIndicator |-> EmptyString]

\* the metadata of the legacy parser before any ISA segment is seen
EmptyLegacyMetadata ==
    [sender |-> EmptyString, receiver |-> EmptyString, date |-> EmptyString,
     controlNumber |-> EmptyString]

\* the metadata after the loop of the universal parser: each ISA segment with
\* at least UniversalIsaLength entries overwrites it
RECURSIVE Metadata(_, _)
Metadata(segs, metadata) ==
    IF segs = <<>> THEN metadata
    ELSE LET e == Head(segs).elements
         IN  Metadata(Tail(segs),
                 IF Head(segs).tag = ISA /\ Len(e) >= UniversalIsaLength
                 THEN [sender        |-> OrElse(At(e, 6), EmptyString),
                       receiver      |-> OrElse(At(e, 8), EmptyString),
                       date          |-> OrElse(At(e, 9), EmptyString),
                       controlNumber |-> OrElse(At(e, 13), EmptyString),
                       version       |-> OrElse(At(e, 12), EmptyString),
                       testIndicator |-> OrElse(At(e, 15), EmptyString)]
                 ELSE metadata)

\* the same of the legacy parser, with LegacyIsaLength
RECURSIVE LegacyMetadata(_, _)
LegacyMetadata(segs, metadata) ==
    IF segs = <<>> THEN metadata
    ELSE LET e == Head(segs).elements
         IN  LegacyMetadata(Tail(segs),
                 IF Head(segs).tag = ISA /\ Len(e) >= LegacyIsaLength
                 THEN [sender        |-> OrElse(At(e, 6), EmptyString),
                       receiver      |-> OrElse(At(e, 8), EmptyString),
                       date          |-> OrElse(At(e, 9), EmptyString),
                       controlNumber |-> OrElse(At(e, 13), EmptyString)]
                 ELSE metadata)

\* a segment the universal parser counts as an error: no definition and not
\* an EDIFACT service segment
UnknownSegment(s) ==
    s.tag \notin SEGMENT_DEFINITIONS /\ s.tag \notin {<<"U", "N", "A">>, <<"U", "N", "B">>, <<"U", "N", "H">>}

\* s.toUpperCase()
ToUpperCase(s) ==
    [i \in 1..Len(s) |->
        IF \E k \in 1..26 : LowerCase[k] = s[i]
        THEN UpperCase[CHOOSE k \in 1..26 : LowerCase[k] = s[i]]
        ELSE s[i]]

\* the value null
Null == <<"<null>">>

\* PAYER_DATABASE: the entries in the order of Object.entries, with their names
PAYER_DATABASE ==
    <<[id |-> <<"A", "E", "T", "N", "A">>,   name |-> <<"A", "e", "t", "n", "a", " ", "I", "n", "c", ".">>],
      [id |-> <<"K", "A", "I", "S", "E", "R">>,  name |-> <<"K", "a", "i", "s", "e", "r", " ", "F", "o", "u", "n", "d", "a", "t", "i", "o", "n", " ", "H", "e", "a", "l", "t", "h", " ", "P", "l", "a", "n">>],
      [id |-> <<"B", "C", "B", "S", "_", "A", "L">>, name |-> <<"B", "l", "u", "e", " ", "C", "r", "o", "s", "s", " ", "B", "l", "u", "e", " ", "S", "h", "i", "e", "l", "d", " ", "o", "f", " ", "A", "l", "a", "b", "a", "m", "a">>]>>

\* field?.toUpperCase().includes(text): false for a field that is not there
FieldIncludes(field, text) ==
    field # Undefined /\ Includes(ToUpperCase(field), text)

\* the loop over Object.entries(PAYER_DATABASE): the id of the first of the
\* entries, given by their places, that the test of the loop accepts; Null
\* when it accepts none
FirstPayer(hits) ==
    IF hits = {} THEN Null
    ELSE PAYER_DATABASE[CHOOSE k \in hits : \A j \in hits : k <= j].id

\* the check of the ISA segment: sender id elements[6], receiver id elements[8]
PayerOfISA(segs) ==
    LET isaAt      == {i \in 1..Len(segs) : segs[i].tag = ISA}
        isaSegment == segs[CHOOSE i \in isaAt : \A j \in isaAt : i <= j]
        senderId   == At(isaSegment.elements, 6)
        receiverId == At(isaSegment.elements, 8)
        Accepts(payer) ==
            \/ FieldIncludes(senderId, payer.id)
            \/ FieldIncludes(receiverId, payer.id)
            \/ FieldIncludes(senderId, ToUpperCase(payer.name))
            \/ FieldIncludes(receiverId, ToUpperCase(payer.name))
    IN  IF isaAt = {} THEN Null
        ELSE FirstPayer({k \in 1..Len(PAYER_DATABASE) : Accepts(PAYER_DATABASE[k])})

\* the check of the N1 segments, in stream order: entity name elements[2]
RECURSIVE PayerOfN1(_)
PayerOfN1(n1Segments) ==
    IF n1Segments = <<>> THEN Null
    ELSE LET entityName == At(Head(n1Segments).elements, 2)
             Accepts(payer) ==
                 \/ FieldIncludes(entityName, payer.id)
                 \/ FieldIncludes(entityName, ToUpperCase(payer.name))
             found == IF entityName # Undefined /\ entityName # EmptyString
                      THEN FirstPayer({k \in 1..Len(PAYER_DATABASE) :
                                           Accepts(PAYER_DATABASE[k])})
                      ELSE Null
         IN  IF found # Null THEN found ELSE PayerOfN1(Tail(n1Segments))

\* identifyPayer with the N1 segments checked before the ISA segment
IdentifyPayerN1First(segs) ==
    LET byN1 == PayerOfN1(SelectSeq(segs, LAMBDA s : s.tag = N1))
    IN  IF byN1 # Null THEN byN1 ELSE PayerOfISA(segs)

\* identifyPayer(transaction)
identifyPayer(segs) ==
    LET byISA == PayerOfISA(segs)
    IN  IF byISA # Null THEN byISA
        ELSE PayerOfN1(SelectSeq(segs, LAMBDA s : s.tag = N1))

\* transaction.payer when identifyPayer found no payer
UndefinedPayer == [id |-> Undefined, name |-> Undefined]

\* transaction.payer: id and name of the directory entry of a payer id
PayerOf(payerId) ==
    IF payerId = Null THEN UndefinedPayer
    ELSE LET k == CHOOSE j \in 1..Len(PAYER_DATABASE) : PAYER_DATABASE[j].id = payerId
         IN  [id |-> payerId, name |-> PAYER_DATABASE[k].name]

\* parseEDIContent of universalEDIParser.ts
parseEDIContentUniversal(text) ==
    LET segs == Tokenize(NonBlankLines(text), 0, UniversalDelimiters)
    IN  [run        |-> TRUE,
         type       |-> detectEDIFormat(text),
         segments   |-> segs,
         metadata   |-> Metadata(segs, EmptyMetadata),
         payer      |-> PayerOf(identifyPayer(segs)),
         statistics |-> [totalSegments |-> Len(segs),
                         errorCount    |-> Cardinality({i \in 1..Len(segs) : UnknownSegment(segs[i])}),
                         warningCount  |-> 0]]

\* parseEDIContent of ediParser.ts
parseEDIContentLegacy(text) ==
    LET segs == Tokenize(NonBlankLines(text), 0, LegacyDelimiters)
    IN  [run        |-> TRUE,
         type       |-> detectEDIType(text),
         segments   |-> segs,
         metadata   |-> LegacyMetadata(segs, EmptyLegacyMetadata)]

-----------------------------------------------------------------------------
(* The tokenizer as a state machine: a text, then one of the two parsers.  *)

\* every text of at most n characters
Texts(n) == UNION {[1..k -> Alphabet] : k \in 0..n}

InitTok ==
    /\ content \in Texts(MaxLen)
    /\ parsed = NotRun
    /\ parser = "none"
    /\ transaction = NotRun
    /\ validation = NotRun
    /\ segments = <<>>
    /\ extracted = NotRun
    /\ extractor = "none"
    /\ IdleRoundTrip
    /\ IdleTracker
    /\ IdleService

\* parseEDIContent(content) of universalEDIParser.ts
ParseUniversal ==
    /\ parser = "none"
    /\ parsed' = parseEDIContentUniversal(content)
    /\ parser' = "universal"
    /\ UNCHANGED <<content, valVars, extVars, rtVars, trkVars, svcVars>>

\* parseEDIContent(content) of ediParser.ts
ParseLegacy ==
    /\ parser = "none"
    /\ parsed' = parseEDIContentLegacy(content)
    /\ parser' = "legacy"
    /\ UNCHANGED <<content, valVars, extVars, rtVars, trkVars, svcVars>>

NextTok == ParseUniversal \/ ParseLegacy

SpecTok == InitTok /\ [][NextTok]_vars

\* the delimiter class of the parser that ran
DelimitersUsed == IF parser = "legacy" THEN LegacyDelimiters ELSE UniversalDelimiters

\* The lines of a text that are not blank, counted on the text itself: a
\* line starts after each LF, and a line is not blank when it holds a
\* character that is not white space. Each such line is counted at its first
\* character that is not white space.
NonBlankLineCount(text) ==
    Cardinality({i \in 1..Len(text) :
        /\ text[i] \notin WhiteSpace
        /\ \A j \in 1..(i-1) :
              text[j] \notin WhiteSpace => \E k \in (j+1)..(i-1) : text[k] = "\n"})

\* C1: for every input text (the empty text, white space only and a text
\* with no final line ending included) parseEDIContent returns, and the
\* number of segments it returns is the number of lines that are not blank.
C1_SegmentCountIsNonBlankLines ==
    parser # "none" =>
        /\ parsed.run
        /\ Len(parsed.segments) = NonBlankLineCount(content)

\* C1 witness: a parse of a text with a blank line between two segments,
\* the last line unterminated.
C1_Witness ==
    /\ parser # "none"
    /\ Len(parsed.segments) = 2
    /\ Len(SplitLines(content)) = 3
    /\ content[Len(content)] # "\n"

\* the characters of s that are not in D, in order
RECURSIVE Without(_, _)
Without(s, D) ==
    IF s = <<>> THEN <<>>
    ELSE (IF Head(s) \in D THEN <<>> ELSE <<Head(s)>>) \o Without(Tail(s), D)

\* the entries of a sequence of strings, one after the other
RECURSIVE Concat(_)
Concat(ss) == IF ss = <<>> THEN <<>> ELSE Head(ss) \o Concat(Tail(ss))

C18_LineNumberCountsBlankLines ==
    parser # "none" =>
        LET lines    == SplitLines(content)
            nonBlank == {i \in 1..Len(lines) :
                            \E k \in 1..Len(lines[i]) : lines[i][k] \notin WhiteSpace}
        IN  \A n \in 1..Len(parsed.segments) :
                /\ parsed.segments[n].lineNumber \in nonBlank
                /\ Cardinality({i \in nonBlank : i < parsed.segments[n].lineNumber}) = n - 1

-----------------------------------------------------------------------------
(* The structural validator, ediValidator.ts.  An issue is                 *)
(* [id, type, segment]; the message texts are fixed per rule and are left  *)
(* out.                                                                    *)

\* REQUIRED_834_SEGMENTS
REQUIRED_834_SEGMENTS == <<ISA, GS, ST, BGN, N1, INS, NM1, SE, GE, IEA>>

\* REQUIRED_820_SEGMENTS
REQUIRED_820_SEGMENTS == <<ISA, GS, ST, BPR, N1, SE, GE, IEA>>

\* the fewest entries of an ISA's elements that validateISAFormat accepts
IsaMinElements == 16

\* the fewest entries of a DTP's elements that validateDTPFormat accepts
DtpMinElements == 4

\* the fewest entries of a DMG's elements that validateDMGFormat looks at
DmgMinElements == 4

\* the farthest an NM1*IL may follow its INS, in segment positions
OrphanDistance == 10

\* the decimal digits of a natural number, as `${n}` writes it
RECURSIVE NumberToString(_)
NumberToString(n) ==
    LET digit == <<"0", "1", "2", "3", "4", "5", "6", "7", "8", "9">>[(n % 10) + 1]
    IN  IF n < 10 THEN <<digit>> ELSE NumberToString(n \div 10) \o <<digit>>

\* transaction.segments[0] of a transaction with no segment
UndefinedSegment ==
    [tag |-> Undefined, elements |-> <<>>, raw |-> Undefined, lineNumber |-> 0]

\* arr[0] of an array of segments
FirstSegment(segs) == IF segs = <<>> THEN UndefinedSegment ELSE segs[1]

\* /^\d{n}$/.test(s)
IsDigits(s, n) == Len(s) = n /\ \A k \in 1..Len(s) : s[k] \in Digits

\* /^\d+(\.\d{2})?$/.test(s)
IsAmount(s) ==
    \/ Len(s) >= 1 /\ \A k \in 1..Len(s) : s[k] \in Digits
    \/ /\ Len(s) >= 4
       /\ s[Len(s) - 2] = "."
       /\ \A k \in 1..Len(s) : k # Len(s) - 2 => s[k] \in Digits

\* a string that is defined and not empty: what `s && ...` asks
Truthy(s) == s # Undefined /\ s # EmptyString

\* the tags present: new Set(transaction.segments.map(s => s.tag))
PresentSegments(segs) == {segs[i].tag : i \in 1..Len(segs)}

\* arr.find(s => s.tag === tag): the position of the first one, 0 if none
FindTag(segs, tag) ==
    IF \E i \in 1..Len(segs) : segs[i].tag = tag
    THEN CHOOSE i \in 1..Len(segs) :
            segs[i].tag = tag /\ \A j \in 1..(i-1) : segs[j].tag # tag
    ELSE 0

Issue(id, type, segment) == [id |-> id, type |-> type, segment |-> segment]

\* the issues of a required list: one per tag of it that is absent
RECURSIVE MissingIssues(_, _)
MissingIssues(required, tx) ==
    IF required = <<>> THEN <<>>
    ELSE (IF Head(required) \notin PresentSegments(tx.segments)
          THEN <<Issue(<<"m", "i", "s", "s", "i", "n", "g", "-">> \o Head(required), "critical", FirstSegment(tx.segments))>>
          ELSE <<>>)
         \o MissingIssues(Tail(required), tx)

\* the list validateRequiredSegments checks
RequiredSegments(tx) ==
    IF tx.type = T834 THEN REQUIRED_834_SEGMENTS ELSE REQUIRED_820_SEGMENTS

validateRequiredSegments(tx) == MissingIssues(RequiredSegments(tx), tx)

\* a sequence check that looks at the first segment only
SequenceFirstOnly(tx) ==
    LET segs == tx.segments
    IN  IF Len(segs) > 0 /\ segs[1].tag # ISA
        THEN <<Issue(<<"i", "s", "a", "-", "n", "o", "t", "-", "f", "i", "r", "s", "t">>, "critical", segs[1])>>
        ELSE <<>>

validateSegmentSequence(tx) ==
    LET segs == tx.segments
    IN  (IF Len(segs) > 0 /\ segs[1].tag # ISA
         THEN <<Issue(<<"i", "s", "a", "-", "n", "o", "t", "-", "f", "i", "r", "s", "t">>, "critical", segs[1])>>
         ELSE <<>>)
        \o
        (IF Len(segs) > 0 /\ segs[Len(segs)].tag # IEA
         THEN <<Issue(<<"i", "e", "a", "-", "n", "o", "t", "-", "l", "a", "s", "t">>, "critical", segs[Len(segs)])>>
         ELSE <<>>)

\* a control-number check that compares the IEA's first field
ControlNumbersWrongField(tx) ==
    LET segs == tx.segments
        isa  == FindTag(segs, ISA)
        iea  == FindTag(segs, IEA)
    IN  IF isa # 0 /\ iea # 0 /\ At(segs[isa].elements, 13) # At(segs[iea].elements, 1)
        THEN <<Issue(<<"c", "o", "n", "t", "r", "o", "l", "-", "n", "u", "m", "b", "e", "r", "-", "m", "i", "s", "m", "a", "t", "c", "h">>, "critical", segs[iea])>>
        ELSE <<>>

validateControlNumbers(tx) ==
    LET segs == tx.segments
        isa  == FindTag(segs, ISA)
        iea  == FindTag(segs, IEA)
    IN  IF isa # 0 /\ iea # 0 /\ At(segs[isa].elements, 13) # At(segs[iea].elements, 2)
        THEN <<Issue(<<"c", "o", "n", "t", "r", "o", "l", "-", "n", "u", "m", "b", "e", "r", "-", "m", "i", "s", "m", "a", "t", "c", "h">>, "critical", segs[iea])>>
        ELSE <<>>

validateISAFormat(segment) ==
    LET date == At(segment.elements, 9)
    IN  (IF Len(segment.elements) < IsaMinElements
         THEN <<Issue(<<"i", "s", "a", "-", "i", "n", "s", "u", "f", "f", "i", "c", "i", "e", "n", "t", "-", "e", "l", "e", "m", "e", "n", "t", "s", "-">> \o NumberToString(segment.lineNumber),
                      "critical", segment)>>
         ELSE <<>>)
        \o
        (IF Truthy(date) /\ ~IsDigits(date, 6)
         THEN <<Issue(<<"i", "s", "a", "-", "i", "n", "v", "a", "l", "i", "d", "-", "d", "a", "t", "e", "-">> \o NumberToString(segment.lineNumber),
                      "warning", segment)>>
         ELSE <<>>)

validateDTPFormat(segment) ==
    LET format == At(segment.elements, 2)
        date   == At(segment.elements, 3)
    IN  IF Len(segment.elements) < DtpMinElements
        THEN <<Issue(<<"d", "t", "p", "-", "i", "n", "s", "u", "f", "f", "i", "c", "i", "e", "n", "t", "-", "e", "l", "e", "m", "e", "n", "t", "s", "-">> \o NumberToString(segment.lineNumber),
                     "warning", segment)>>
        ELSE IF format = <<"D", "8">> /\ Truthy(date) /\ ~IsDigits(date, 8)
        THEN <<Issue(<<"d", "t", "p", "-", "i", "n", "v", "a", "l", "i", "d", "-", "d", "a", "t", "e", "-">> \o NumberToString(segment.lineNumber),
                     "warning", segment)>>
        ELSE <<>>

validateDMGFormat(segment) ==
    LET birthDate == At(segment.elements, 2)
        gender    == At(segment.elements, 3)
    IN  IF Len(segment.elements) < DmgMinElements THEN <<>>
        ELSE (IF Truthy(birthDate) /\ ~IsDigits(birthDate, 8)
              THEN <<Issue(<<"d", "m", "g", "-", "i", "n", "v", "a", "l", "i", "d", "-", "b", "i", "r", "t", "h", "d", "a", "t", "e", "-">> \o NumberToString(segment.lineNumber),
                           "warning", segment)>>
              ELSE <<>>)
             \o
             (IF Truthy(gender) /\ gender \notin {<<"M">>, <<"F">>, <<"U">>}
              THEN <<Issue(<<"d", "m", "g", "-", "i", "n", "v", "a", "l", "i", "d", "-", "g", "e", "n", "d", "e", "r", "-">> \o NumberToString(segment.lineNumber),
                           "warning", segment)>>
              ELSE <<>>)

\* the switch of validateDataFormats for one segment
FormatIssues(segment) ==
    CASE segment.tag = ISA -> validateISAFormat(segment)
      [] segment.tag = DTP -> validateDTPFormat(segment)
      [] segment.tag = DMG -> validateDMGFormat(segment)
      [] OTHER -> <<>>

\* transaction.segments.forEach(...) of validateDataFormats
RECURSIVE validateDataFormats(_)
validateDataFormats(segs) ==
    IF segs = <<>> THEN <<>>
    ELSE FormatIssues(Head(segs)) \o validateDataFormats(Tail(segs))

\* the same loop flagging the NM1 segments of every entity-type code
RECURSIVE OrphanIssuesAnyCode(_, _, _)
OrphanIssuesAnyCode(segs, index, lastINS) ==
    IF index >= Len(segs) THEN <<>>
    ELSE LET segment == segs[index + 1]
         IN  IF segment.tag = INS
             THEN OrphanIssuesAnyCode(segs, index + 1, index)
             ELSE IF /\ segment.tag = NM1
                     /\ (lastINS = -1 \/ index - lastINS > OrphanDistance)
             THEN <<Issue(<<"o", "r", "p", "h", "a", "n", "e", "d", "-", "n", "m", "1", "-">> \o NumberToString(segment.lineNumber),
                          "warning", segment)>>
                  \o OrphanIssuesAnyCode(segs, index + 1, lastINS)
             ELSE OrphanIssuesAnyCode(segs, index + 1, lastINS)

\* the forEach of validate834BusinessRules from position index on (counted
\* from 0), lastINS being the position of the last INS seen, -1 if none
RECURSIVE OrphanIssues(_, _, _)
OrphanIssues(segs, index, lastINS) ==
    IF index >= Len(segs) THEN <<>>
    ELSE LET segment == segs[index + 1]
         IN  IF segment.tag = INS
             THEN OrphanIssues(segs, index + 1, index)
             ELSE IF /\ segment.tag = NM1
                     /\ At(segment.elements, 1) = <<"I", "L">>
                     /\ (lastINS = -1 \/ index - lastINS > OrphanDistance)
             THEN <<Issue(<<"o", "r", "p", "h", "a", "n", "e", "d", "-", "n", "m", "1", "-">> \o NumberToString(segment.lineNumber),
                          "warning", segment)>>
                  \o OrphanIssues(segs, index + 1, lastINS)
             ELSE OrphanIssues(segs, index + 1, lastINS)

\* the same loop flagging an NM1*IL already at distance OrphanDistance
RECURSIVE OrphanIssuesOffByOne(_, _, _)
OrphanIssuesOffByOne(segs, index, lastINS) ==
    IF index >= Len(segs) THEN <<>>
    ELSE LET segment == segs[index + 1]
         IN  IF segment.tag = INS
             THEN OrphanIssuesOffByOne(segs, index + 1, index)
             ELSE IF /\ segment.tag = NM1
                     /\ At(segment.elements, 1) = <<"I", "L">>
                     /\ (lastINS = -1 \/ index - lastINS >= OrphanDistance)
             THEN <<Issue(<<"o", "r", "p", "h", "a", "n", "e", "d", "-", "n", "m", "1", "-">> \o NumberToString(segment.lineNumber),
                          "warning", segment)>>
                  \o OrphanIssuesOffByOne(segs, index + 1, lastINS)
             ELSE OrphanIssuesOffByOne(segs, index + 1, lastINS)

Business834OffByOne(tx) == OrphanIssuesOffByOne(tx.segments, 0, -1)

validate834BusinessRules(tx) == OrphanIssues(tx.segments, 0, -1)

\* the amount warning of one BPR segment
AmountIssues(segment) ==
    LET amount == At(segment.elements, 2)
    IN  IF Truthy(amount) /\ ~IsAmount(amount)
        THEN <<Issue(<<"b", "p", "r", "-", "i", "n", "v", "a", "l", "i", "d", "-", "a", "m", "o", "u", "n", "t", "-">> \o NumberToString(segment.lineNumber),
                     "warning", segment)>>
        ELSE <<>>

RECURSIVE AmountIssuesAll(_)
AmountIssuesAll(segs) ==
    IF segs = <<>> THEN <<>>
    ELSE AmountIssues(Head(segs)) \o AmountIssuesAll(Tail(segs))

validate820BusinessRules(tx) ==
    LET bprSegments == SelectSeq(tx.segments, LAMBDA s : s.tag = BPR)
    IN  (IF Len(bprSegments) = 0
         THEN <<Issue(<<"m", "i", "s", "s", "i", "n", "g", "-", "b", "p", "r">>, "critical", FirstSegment(tx.segments))>>
         ELSE <<>>)
        \o AmountIssuesAll(bprSegments)

\* the errors array after all the passes of validateEDITransaction
AllIssues(tx) ==
    validateRequiredSegments(tx)
    \o validateSegmentSequence(tx)
    \o validateControlNumbers(tx)
    \o validateDataFormats(tx.segments)
    \o (IF tx.type = T834 THEN validate834BusinessRules(tx)
        ELSE IF tx.type = T820 THEN validate820BusinessRules(tx)
        ELSE <<>>)

\* a result whose validity also asks for no warning
ResultStrict(errors) ==
    LET warnings       == SelectSeq(errors, LAMBDA e : e.type = "warning")
        criticalErrors == SelectSeq(errors, LAMBDA e : e.type = "critical")
    IN  [run         |-> TRUE,
         isValid     |-> Len(errors) = 0,
         errors      |-> criticalErrors,
         warnings    |-> warnings,
         totalIssues |-> Len(errors)]

\* the ValidationResult built from the errors array
Result(errors) ==
    LET warnings       == SelectSeq(errors, LAMBDA e : e.type = "warning")
        criticalErrors == SelectSeq(errors, LAMBDA e : e.type = "critical")
    IN  [run         |-> TRUE,
         isValid     |-> Len(criticalErrors) = 0,
         errors      |-> criticalErrors,
         warnings    |-> warnings,
         totalIssues |-> Len(errors)]

validateEDITransaction(tx) == Result(AllIssues(tx))

-----------------------------------------------------------------------------
(* The validator as a state machine: a transaction, then the validation.   *)
(* The transactions are the legacy tokenizer's segments of lists of lines. *)

\* Longest list of arbitrary lines a transaction is made of.
MaxSegs == 2

L_ISA      == <<"I", "S", "A", "*", "0", "0", "*", "*", "0", "0", "*", "*", "Z", "Z", "*", "S", "*", "Z", "Z", "*", "R", "*", "2", "5", "0", "9", "3", "0", "*", "1", "2", "0", "0", "*", "^", "*", "0", "0", "5", "0", "1", "*", "0", "1", "*", "0", "*", "P", "*", ":">>
L_ISA_DATE == <<"I", "S", "A", "*", "0", "0", "*", "*", "0", "0", "*", "*", "Z", "Z", "*", "S", "*", "Z", "Z", "*", "R", "*", "2", "5", "0", "9", "*", "1", "2", "0", "0", "*", "^", "*", "0", "0", "5", "0", "1", "*", "0", "1", "*", "0", "*", "P", "*", ":">>
L_ISA_CTL  == <<"I", "S", "A", "*", "0", "0", "*", "*", "0", "0", "*", "*", "Z", "Z", "*", "S", "*", "Z", "Z", "*", "R", "*", "2", "5", "0", "9", "3", "0", "*", "1", "2", "0", "0", "*", "^", "*", "0", "0", "5", "0", "1", "*", "0", "2", "*", "0", "*", "P", "*", ":">>
L_ISA_CUT  == <<"I", "S", "A", "*", "0", "0">>
L_IEA      == <<"I", "E", "A", "*", "1", "*", "0", "1">>
L_IEA_CTL  == <<"I", "E", "A", "*", "1", "*", "0", "2">>
L_IEA_CUT  == <<"I", "E", "A">>
L_GS       == <<"G", "S", "*", "B", "E">>
L_GE       == <<"G", "E", "*", "1", "*", "1">>
L_ST834    == <<"S", "T", "*", "8", "3", "4", "*", "0", "0", "0", "1">>
L_ST820    == <<"S", "T", "*", "8", "2", "0", "*", "0", "0", "0", "1">>
L_ST837    == <<"S", "T", "*", "8", "3", "7", "*", "0", "0", "0", "1">>
L_SE       == <<"S", "E", "*", "9", "*", "0", "0", "0", "1">>
L_BGN      == <<"B", "G", "N", "*", "0", "0">>
L_N1       == <<"N", "1", "*", "P", "5", "*", "A", "C", "M", "E">>
L_INS      == <<"I", "N", "S", "*", "Y", "*", "1", "8">>
L_NM1_IL   == <<"N", "M", "1", "*", "I", "L", "*", "1", "*", "D", "O", "E">>
L_NM1_85   == <<"N", "M", "1", "*", "8", "5", "*", "2", "*", "C", "L", "I", "N", "I", "C">>
L_DTP      == <<"D", "T", "P", "*", "3", "5", "6", "*", "D", "8", "*", "2", "0", "2", "5", "0", "1", "0", "1">>
L_DTP_DATE == <<"D", "T", "P", "*", "3", "5", "6", "*", "D", "8", "*", "2", "0", "2", "5">>
L_DTP_CUT  == <<"D", "T", "P", "*", "3", "5", "6">>
L_DMG      == <<"D", "M", "G", "*", "D", "8", "*", "1", "9", "8", "0", "0", "1", "0", "1", "*", "M">>
L_DMG_BAD  == <<"D", "M", "G", "*", "D", "8", "*", "1", "9", "8", "0", "*", "X">>
L_BPR      == <<"B", "P", "R", "*", "C", "*", "1", "2", "5", "0", "0", "0", ".", "0", "0", "*", "C", "*", "A", "C", "H">>
L_BPR_AMT  == <<"B", "P", "R", "*", "C", "*", "1", "2", ".", "5", "*", "C">>
L_BPR_EMPTY == <<"B", "P", "R", "*", "C", "*", "*", "C">>
L_RMR      == <<"R", "M", "R", "*", "I", "V", "*", "G", "1", "*", "1", "0", "0", ".", "0", "0">>
L_BHT      == <<"B", "H", "T", "*", "0", "0", "1", "9", "*", "0", "0">>
L_CLM      == <<"C", "L", "M", "*", "1", "*", "5", "0">>

\* the lines transactions are made of
Lines ==
    {L_ISA, L_ISA_DATE, L_ISA_CTL, L_ISA_CUT, L_IEA, L_IEA_CTL, L_IEA_CUT,
     L_GS, L_GE, L_ST834, L_SE, L_BGN, L_N1, L_INS, L_NM1_IL, L_NM1_85,
     L_DTP, L_DTP_DATE, L_DTP_CUT, L_DMG, L_DMG_BAD, L_BPR, L_BPR_AMT, L_BPR_EMPTY, L_RMR,
     L_BHT, L_CLM}

\* a complete 834 file
File834 ==
    <<L_ISA, L_GS, L_ST834, L_BGN, L_N1, L_INS, L_NM1_IL, L_DMG, L_DTP,
      L_SE, L_GE, L_IEA>>

\* a complete 834 file whose NM1*IL comes eleven positions after its INS
File834Far ==
    <<L_ISA, L_GS, L_ST834, L_BGN, L_N1, L_INS,
      L_DTP, L_DTP, L_DTP, L_DTP, L_DTP, L_DTP, L_DTP, L_DTP, L_DTP, L_DTP,
      L_NM1_IL, L_SE, L_GE, L_IEA>>

\* a complete 820 file
File820 == <<L_ISA, L_GS, L_ST820, L_BPR, L_N1, L_RMR, L_SE, L_GE, L_IEA>>

\* a complete 837 file
File837 == <<L_ISA, L_GS, L_ST837, L_BHT, L_NM1_85, L_CLM, L_SE, L_GE, L_IEA>>

Files == {File834, File834Far, File820, File837}

\* a file with its line at position i removed
WithoutLine(file, i) == SubSeq(file, 1, i - 1) \o SubSeq(file, i + 1, Len(file))

\* the complete files, and each with one line removed or replaced
EditedFiles ==
    Files
    \cup UNION {{WithoutLine(f, i) : i \in 1..Len(f)} : f \in Files}
    \cup UNION {{[f EXCEPT ![x[1]] = x[2]] : x \in (1..Len(f)) \X Lines} : f \in Files}

\* every list of at most n lines
LineLists(n) == UNION {[1..k -> Lines] : k \in 0..n}

\* the types a transaction is given
Types == {T834, T820, T837, Unknown}

\* the transaction of a list of lines, declared of type t
TransactionOf(t, lines) ==
    LET segs == Tokenize(lines, 0, LegacyDelimiters)
    IN  [type     |-> t,
         segments |-> segs,
         metadata |-> LegacyMetadata(segs, EmptyLegacyMetadata)]

InitVal ==
    /\ content = EmptyString
    /\ parsed = NotRun
    /\ parser = "none"
    /\ transaction \in {TransactionOf(t, ls) :
                           <<t, ls>> \in Types \X (LineLists(MaxSegs) \cup EditedFiles)}
    /\ validation = NotRun
    /\ segments = <<>>
    /\ extracted = NotRun
    /\ extractor = "none"
    /\ IdleRoundTrip
    /\ IdleTracker
    /\ IdleService

\* validateEDITransaction(transaction)
Validate ==
    /\ validation = NotRun
    /\ validation' = validateEDITransaction(transaction)
    /\ UNCHANGED <<tokVars, transaction, extVars, rtVars, trkVars, svcVars>>

NextVal == Validate

SpecVal == InitVal /\ [][NextVal]_vars

\* the issues of a list with the given id
WithId(issues, id) == SelectSeq(issues, LAMBDA e : e.id = id)

\* every issue of the result, the critical ones first
Reported == validation.errors \o validation.warnings

\* the missing-segment issues of the result (missing-bpr is the 820 business
\* rule's, not the required-segment pass's)
MissingReported ==
    SelectSeq(Reported,
              LAMBDA e : OccursAt(e.id, <<"m", "i", "s", "s", "i", "n", "g", "-">>, 1) /\ e.id # <<"m", "i", "s", "s", "i", "n", "g", "-", "b", "p", "r">>)

\* C3: the result of validateEDITransaction is consistent: its critical list
\* holds exactly the critical issues and its warnings list exactly the
\* warnings the passes produced, isValid is true exactly when the critical
\* list is empty, and totalIssues is the number of critical issues plus the
\* number of warnings.
C3_ResultConsistent ==
    validation.run =>
        LET passes == validateRequiredSegments(transaction)
                      \o validateSegmentSequence(transaction)
                      \o validateControlNumbers(transaction)
                      \o validateDataFormats(transaction.segments)
                      \o (IF transaction.type = T834 THEN validate834BusinessRules(transaction)
                          ELSE IF transaction.type = T820 THEN validate820BusinessRules(transaction)
                          ELSE <<>>)
        IN  /\ validation.errors = SelectSeq(passes, LAMBDA e : e.type = "critical")
            /\ validation.warnings = SelectSeq(passes, LAMBDA e : e.type = "warning")
            /\ validation.isValid <=> (validation.errors = <<>>)
            /\ validation.totalIssues = Len(validation.errors) + Len(validation.warnings)

\* C3 witness: a result with warnings and no critical issue, which is valid
C3_Witness ==
    /\ validation.run
    /\ validation.isValid
    /\ Len(validation.warnings) > 0

\* the transaction of the ISA/IEA sample: an ISA segment with its 16 data
\* elements and a 6-digit date, then an IEA with the same control number
IsaIeaOnly(tx) ==
    /\ Len(tx.segments) = 2
    /\ tx.segments[1].tag = ISA
    /\ Len(tx.segments[1].elements) >= 17
    /\ IsDigits(At(tx.segments[1].elements, 9), 6)
    /\ tx.segments[2].tag = IEA
    /\ At(tx.segments[2].elements, 2) = At(tx.segments[1].elements, 13)

\* C4: for a transaction of unknown type the required-segment pass uses an
\* empty list and reports no missing segment, so an ISA segment followed by
\* an IEA segment with the same control number is valid.
C4_UnknownTypeHasNoRequiredSegments ==
    (validation.run /\ transaction.type = Unknown) =>
        /\ MissingReported = <<>>
        /\ IsaIeaOnly(transaction) => validation.isValid

\* C5: for a transaction of a supported format the required-segment pass
\* checks that format's own list of X12_FORMATS: one critical issue,
\* referencing the first segment, for each tag of the list that is absent,
\* and no missing-segment issue for any other tag.
C5_RequiredListOfTheFormat ==
    (validation.run /\ transaction.type \in FormatCodes) =>
        LET required == X12_FORMATS(transaction.type)
            absent   == {required[k] : k \in 1..Len(required)}
                        \ PresentSegments(transaction.segments)
        IN  /\ {MissingReported[k].id : k \in 1..Len(MissingReported)}
                  = {<<"m", "i", "s", "s", "i", "n", "g", "-">> \o t : t \in absent}
            /\ Len(MissingReported) = Cardinality(absent)
            /\ \A k \in 1..Len(MissingReported) :
                  /\ MissingReported[k].type = "critical"
                  /\ MissingReported[k].segment = FirstSegment(transaction.segments)

\* C6: for a transaction that is not empty, the 'ISA must be first' issue is
\* reported exactly when the first segment is not an ISA and the 'IEA must be
\* last' issue exactly when the last segment is not an IEA; each is critical,
\* is reported once and references the first (the last) segment.
C6_EnvelopeBracketing ==
    (validation.run /\ Len(transaction.segments) > 0) =>
        LET segs  == transaction.segments
            first == WithId(Reported, <<"i", "s", "a", "-", "n", "o", "t", "-", "f", "i", "r", "s", "t">>)
            last  == WithId(Reported, <<"i", "e", "a", "-", "n", "o", "t", "-", "l", "a", "s", "t">>)
        IN  /\ Len(first) = (IF segs[1].tag # ISA THEN 1 ELSE 0)
            /\ Len(last) = (IF segs[Len(segs)].tag # IEA THEN 1 ELSE 0)
            /\ \A k \in 1..Len(first) :
                  first[k].type = "critical" /\ first[k].segment = segs[1]
            /\ \A k \in 1..Len(last) :
                  last[k].type = "critical" /\ last[k].segment = segs[Len(segs)]

\* C6 witness: a transaction that starts with an ISA and does not end with
\* an IEA: the second issue alone is reported
C6_Witness ==
    /\ validation.run
    /\ Len(transaction.segments) > 1
    /\ transaction.segments[1].tag = ISA
    /\ transaction.segments[Len(transaction.segments)].tag # IEA
    /\ WithId(validation.errors, <<"i", "e", "a", "-", "n", "o", "t", "-", "l", "a", "s", "t">>) # <<>>
    /\ WithId(validation.errors, <<"i", "s", "a", "-", "n", "o", "t", "-", "f", "i", "r", "s", "t">>) = <<>>

\* C7: the control-number mismatch is reported exactly when the transaction
\* holds an ISA and an IEA segment and the control number of the (first) ISA,
\* its 13th data element, is not the text of the (first) IEA's, its 2nd data
\* element; it is critical and is reported once.
C7_ControlNumberMismatch ==
    validation.run =>
        LET segs  == transaction.segments
            isas  == {i \in 1..Len(segs) : segs[i].tag = ISA}
            ieas  == {i \in 1..Len(segs) : segs[i].tag = IEA}
            firstOf(S) == CHOOSE i \in S : \A j \in S : i <= j
            differ == /\ isas # {}
                      /\ ieas # {}
                      /\ At(segs[firstOf(isas)].elements, 13)
                            # At(segs[firstOf(ieas)].elements, 2)
            found == WithId(Reported, <<"c", "o", "n", "t", "r", "o", "l", "-", "n", "u", "m", "b", "e", "r", "-", "m", "i", "s", "m", "a", "t", "c", "h">>)
        IN  /\ Len(found) = (IF differ THEN 1 ELSE 0)
            /\ \A k \in 1..Len(found) : found[k].type = "critical"

\* C7 witness: an ISA and an IEA whose control numbers are both there and
\* differ, and the mismatch reported
C7_Witness ==
    /\ validation.run
    /\ \E i, j \in 1..Len(transaction.segments) :
          /\ transaction.segments[i].tag = ISA
          /\ transaction.segments[j].tag = IEA
          /\ At(transaction.segments[i].elements, 13) # Undefined
          /\ At(transaction.segments[j].elements, 2) # Undefined
          /\ At(transaction.segments[i].elements, 13) # At(transaction.segments[j].elements, 2)
    /\ WithId(validation.errors, <<"c", "o", "n", "t", "r", "o", "l", "-", "n", "u", "m", "b", "e", "r", "-", "m", "i", "s", "m", "a", "t", "c", "h">>) # <<>>

\* an ISA with its 16 data elements and a 6-digit date, a DTP with
\* qualifier, format and date whose D8 date has 8 digits, a DMG whose birth
\* date has 8 digits and whose gender is M, F or U
WellFormed(seg) ==
    CASE seg.tag = ISA -> /\ Len(seg.elements) >= 17
                          /\ IsDigits(At(seg.elements, 9), 6)
      [] seg.tag = DTP -> /\ Len(seg.elements) >= 4
                          /\ At(seg.elements, 2) = <<"D", "8">> => IsDigits(At(seg.elements, 3), 8)
      [] seg.tag = DMG -> /\ Len(seg.elements) >= 4
                          /\ IsDigits(At(seg.elements, 2), 8)
                          /\ At(seg.elements, 3) \in {<<"M">>, <<"F">>, <<"U">>}
      [] OTHER -> TRUE

\* the 834 transactions C8 is about
Complete834(tx) ==
    LET segs == tx.segments
    IN  /\ tx.type = T834
        /\ {ISA, GS, ST, BGN, N1, INS, NM1, SE, GE, IEA} \subseteq PresentSegments(segs)
        /\ segs[1].tag = ISA
        /\ segs[Len(segs)].tag = IEA
        /\ \A i, j \in 1..Len(segs) :
              (segs[i].tag = ISA /\ segs[j].tag = IEA)
                  => /\ At(segs[i].elements, 13) # Undefined
                     /\ At(segs[i].elements, 13) = At(segs[j].elements, 2)
        /\ \A i \in 1..Len(segs) : WellFormed(segs[i])
        /\ \A i \in 1..Len(segs) :
              (segs[i].tag = NM1 /\ At(segs[i].elements, 1) = <<"I", "L">>)
                  => \E j \in 1..(i-1) : segs[j].tag = INS /\ i - j <= 10

\* C8: an 834 transaction that holds each of ISA, GS, ST, BGN, N1, INS, NM1,
\* SE, GE, IEA, starts with ISA, ends with IEA, has equal control numbers,
\* well-formed ISA, DTP and DMG segments and each NM1*IL within 10 positions
\* after an INS is valid and has no issue at all.
C8_Complete834IsValid ==
    (validation.run /\ Complete834(transaction)) =>
        /\ validation.isValid
        /\ validation.totalIssues = 0

\* C8 witness: such a transaction, validated, whose NM1*IL comes exactly 10
\* positions after its INS
C8_Witness ==
    /\ validation.run
    /\ Complete834(transaction)
    /\ \E i \in 1..Len(transaction.segments) :
          /\ transaction.segments[i].tag = NM1
          /\ i > 10
          /\ transaction.segments[i - 10].tag = INS
          /\ \A j \in (i-9)..(i-1) : transaction.segments[j].tag # INS

-----------------------------------------------------------------------------
(* The business extractor of universalEDIParser.ts.                        *)

\* A JavaScript number read by parseFloat: not-a-number, or a sign, the
\* whole part and the digits of the fraction without its final zeros.
NaN == [nan |-> TRUE, negative |-> FALSE, whole |-> 0, fraction |-> <<>>]

Number(negative, whole, fraction) ==
    [nan |-> FALSE, negative |-> negative, whole |-> whole, fraction |-> fraction]

\* the number a sequence of decimal digits writes
RECURSIVE DigitsValue(_)
DigitsValue(ds) ==
    IF ds = <<>> THEN 0
    ELSE 10 * DigitsValue(SubSeq(ds, 1, Len(ds) - 1))
         + (CHOOSE d \in 0..9 : NumberToString(d) = <<ds[Len(ds)]>>)

\* the longest prefix of s made of digits
RECURSIVE LeadingDigits(_)
LeadingDigits(s) ==
    IF s # <<>> /\ Head(s) \in Digits THEN <<Head(s)>> \o LeadingDigits(Tail(s)) ELSE <<>>

\* ds without its final zeros
RECURSIVE StripZeros(_)
StripZeros(ds) ==
    IF ds # <<>> /\ ds[Len(ds)] = "0" THEN StripZeros(SubSeq(ds, 1, Len(ds) - 1)) ELSE ds

\* s without its leading white space
RECURSIVE SkipWhiteSpace(_)
SkipWhiteSpace(s) ==
    IF s # <<>> /\ Head(s) \in WhiteSpace THEN SkipWhiteSpace(Tail(s)) ELSE s

\* parseFloat(s) for a text with no exponent and no Infinity: the longest
\* prefix that reads as a signed decimal, NaN when there is none
parseFloat(s) ==
    LET t        == SkipWhiteSpace(s)
        signed   == t # <<>> /\ Head(t) \in {"+", "-"}
        u        == IF signed THEN Tail(t) ELSE t
        whole    == LeadingDigits(u)
        afterW   == SubSeq(u, Len(whole) + 1, Len(u))
        fraction == IF afterW # <<>> /\ Head(afterW) = "."
                    THEN LeadingDigits(Tail(afterW)) ELSE <<>>
        zero     == DigitsValue(whole) = 0 /\ StripZeros(fraction) = <<>>
    IN  IF whole = <<>> /\ fraction = <<>> THEN NaN
        ELSE Number(signed /\ Head(t) = "-" /\ ~zero, DigitsValue(whole), StripZeros(fraction))

\* a member whose name was not set
UndefinedName ==
    [qualifier |-> Undefined, lastName |-> Undefined, firstName |-> Undefined,
     middleName |-> Undefined, suffix |-> Undefined, idQualifier |-> Undefined,
     id |-> Undefined]

\* the object {} demographics starts as: every field reads undefined
EmptyDemographics ==
    [dateQualifier |-> Undefined, birthDate |-> Undefined, genderCode |-> Undefined,
     maritalStatus |-> Undefined, raceEthnicity |-> Undefined]

\* the member an INS segment starts
NewMember(segment) ==
    [memberLevelCode       |-> At(segment.elements, 1),
     relationshipCode      |-> At(segment.elements, 2),
     maintenanceTypeCode   |-> At(segment.elements, 3),
     maintenanceReasonCode |-> At(segment.elements, 4),
     benefitStatusCode     |-> At(segment.elements, 5),
     name                  |-> UndefinedName,
     demographics          |-> EmptyDemographics,
     healthCoverage        |-> <<>>,
     dates                 |-> <<>>]

MemberName(segment) ==
    [qualifier   |-> At(segment.elements, 1),
     lastName    |-> At(segment.elements, 3),
     firstName   |-> At(segment.elements, 4),
     middleName  |-> At(segment.elements, 5),
     suffix      |-> At(segment.elements, 7),
     idQualifier |-> At(segment.elements, 8),
     id          |-> At(segment.elements, 9)]

Demographics(segment) ==
    [dateQualifier |-> At(segment.elements, 1),
     birthDate     |-> At(segment.elements, 2),
     genderCode    |-> At(segment.elements, 3),
     maritalStatus |-> At(segment.elements, 4),
     raceEthnicity |-> At(segment.elements, 5)]

HealthCoverage(segment) ==
    [maintenanceTypeCode     |-> At(segment.elements, 1),
     maintenanceReasonCode   |-> At(segment.elements, 2),
     insuranceLineCode       |-> At(segment.elements, 3),
     planCoverageDescription |-> At(segment.elements, 4),
     coverageLevelCode       |-> At(segment.elements, 5)]

\* the switch of extract834Members on the current member, which is <<>>
\* (null) or <<member>>, for a segment that is not an INS
EnrichMember(currentMember, segment) ==
    IF currentMember = <<>> THEN <<>>
    ELSE CASE segment.tag = NM1 /\ At(segment.elements, 1) = <<"I", "L">> ->
                <<[currentMember[1] EXCEPT !.name = MemberName(segment)]>>
           [] segment.tag = DMG ->
                <<[currentMember[1] EXCEPT !.demographics = Demographics(segment)]>>
           [] segment.tag = HD ->
                <<[currentMember[1] EXCEPT
                      !.healthCoverage = Append(@, HealthCoverage(segment))]>>
           [] OTHER -> currentMember

\* the loop without the push after it: the last member is lost
RECURSIVE MembersLoopNoFinalPush(_, _, _)
MembersLoopNoFinalPush(segs, members, currentMember) ==
    IF segs = <<>> THEN members
    ELSE IF Head(segs).tag = INS
    THEN MembersLoopNoFinalPush(Tail(segs), members \o currentMember, <<NewMember(Head(segs))>>)
    ELSE MembersLoopNoFinalPush(Tail(segs), members, EnrichMember(currentMember, Head(segs)))

\* for (const segment of segments) of extract834Members, then the push of
\* the last member
RECURSIVE MembersLoop(_, _, _)
MembersLoop(segs, members, currentMember) ==
    IF segs = <<>> THEN members \o currentMember
    ELSE IF Head(segs).tag = INS
    THEN MembersLoop(Tail(segs), members \o currentMember, <<NewMember(Head(segs))>>)
    ELSE MembersLoop(Tail(segs), members, EnrichMember(currentMember, Head(segs)))

ExtractMembersNoFinalPush(segs) == MembersLoopNoFinalPush(segs, <<>>, <<>>)

extract834Members(segs) == MembersLoop(segs, <<>>, <<>>)

\* the payment a BPR segment starts
NewPayment(segment) ==
    [transactionHandlingCode            |-> At(segment.elements, 1),
     monetaryAmount                     |-> parseFloat(OrElse(At(segment.elements, 2), <<"0">>)),
     creditDebitFlag                    |-> At(segment.elements, 3),
     paymentMethodCode                  |-> At(segment.elements, 4),
     paymentFormatCode                  |-> At(segment.elements, 5),
     originatingCompanyId               |-> At(segment.elements, 7),
     originatingCompanySupplementalCode |-> At(segment.elements, 8),
     receivingCompanyId                 |-> At(segment.elements, 10),
     receivingCompanySupplementalCode   |-> At(segment.elements, 11),
     effectiveEntryDate                 |-> At(segment.elements, 16),
     remittanceDetails                  |-> <<>>]

\* the remittance detail of an RMR segment
RemittanceDetail(segment) ==
    [referenceQualifier |-> At(segment.elements, 1),
     memberGroupNumber  |-> At(segment.elements, 2),
     remittanceAmount   |-> parseFloat(OrElse(At(segment.elements, 3), <<"0">>)),
     adjustmentAmount   |-> parseFloat(OrElse(At(segment.elements, 4), <<"0">>))]

\* the loop with one remittanceDetails array shared by the payments: a new
\* payment starts with the details of the one before
RECURSIVE PaymentsLoopSharedDetails(_, _, _)
PaymentsLoopSharedDetails(segs, payments, currentPayment) ==
    IF segs = <<>> THEN payments \o currentPayment
    ELSE IF Head(segs).tag = BPR
    THEN PaymentsLoopSharedDetails(Tail(segs), payments \o currentPayment,
             <<[NewPayment(Head(segs)) EXCEPT
                   !.remittanceDetails =
                       IF currentPayment = <<>> THEN <<>>
                       ELSE currentPayment[1].remittanceDetails]>>)
    ELSE IF Head(segs).tag = RMR /\ currentPayment # <<>>
    THEN PaymentsLoopSharedDetails(Tail(segs), payments,
             <<[currentPayment[1] EXCEPT
                   !.remittanceDetails = Append(@, RemittanceDetail(Head(segs)))]>>)
    ELSE PaymentsLoopSharedDetails(Tail(segs), payments, currentPayment)

\* for (const segment of segments) of extract820Payments, then the push of
\* the last payment; the current payment is <<>> (null) or <<payment>>
RECURSIVE PaymentsLoop(_, _, _)
PaymentsLoop(segs, payments, currentPayment) ==
    IF segs = <<>> THEN payments \o currentPayment
    ELSE IF Head(segs).tag = BPR
    THEN PaymentsLoop(Tail(segs), payments \o currentPayment, <<NewPayment(Head(segs))>>)
    ELSE IF Head(segs).tag = RMR /\ currentPayment # <<>>
    THEN PaymentsLoop(Tail(segs), payments,
             <<[currentPayment[1] EXCEPT
                   !.remittanceDetails = Append(@, RemittanceDetail(Head(segs)))]>>)
    ELSE PaymentsLoop(Tail(segs), payments, currentPayment)

ExtractPaymentsSharedDetails(segs) == PaymentsLoopSharedDetails(segs, <<>>, <<>>)

extract820Payments(segs) == PaymentsLoop(segs, <<>>, <<>>)

-----------------------------------------------------------------------------
(* The extractor as a state machine: a segment stream, then an extractor.  *)
(* The streams are the universal tokenizer's segments of lists of lines.   *)

\* Longest segment stream handed to an extractor.
MaxStream == 3

X_INS     == <<"I", "N", "S", "*", "Y", "*", "1", "8", "*", "0", "3", "0", "*", "X", "N", "*", "A">>
X_INS_DEP == <<"I", "N", "S", "*", "N", "*", "1", "9", "*", "0", "2", "1">>
X_INS_CUT == <<"I", "N", "S">>
X_NM1_IL  == <<"N", "M", "1", "*", "I", "L", "*", "1", "*", "D", "O", "E", "*", "J", "O", "H", "N", "*", "Q", "*", "*", "*", "3", "4", "*", "1", "2", "3", "4", "5", "6", "7", "8", "9">>
X_NM1_85  == <<"N", "M", "1", "*", "8", "5", "*", "2", "*", "C", "L", "I", "N", "I", "C">>
X_DMG     == <<"D", "M", "G", "*", "D", "8", "*", "1", "9", "8", "0", "0", "1", "0", "1", "*", "M">>
X_HD      == <<"H", "D", "*", "0", "3", "0", "*", "*", "H", "L", "T", "*", "P", "L", "A", "N", "*", "E", "M", "P">>
X_BPR     == <<"B", "P", "R", "*", "C", "*", "1", "2", "5", "0", "0", "0", ".", "0", "0", "*", "C", "*", "A", "C", "H">>
X_BPR_I   == <<"B", "P", "R", "*", "I", "*", "7", "5", ".", "5", "*", "D", "*", "C", "H", "K", "*", "C", "C", "P", "*", "*", "0", "1", "*", "9", "9", "9">>
X_BPR_CUT == <<"B", "P", "R">>
X_BPR_NAN == <<"B", "P", "R", "*", "C", "*", "a", "b", "c", "*", "C">>
X_RMR     == <<"R", "M", "R", "*", "I", "V", "*", "G", "1", "*", "1", "0", "0", ".", "0", "0", "*", "5", ".", "2", "5">>
X_RMR_AB  == <<"R", "M", "R", "*", "A", "B", "*", "G", "2">>
X_RMR_NAN == <<"R", "M", "R", "*", "I", "V", "*", "G", "3", "*", "n", "/", "a", "*", "1", ".", "5">>

\* the lines segment streams are made of
StreamLines ==
    {X_INS, X_INS_DEP, X_INS_CUT, X_NM1_IL, X_NM1_85, X_DMG, X_HD,
     X_BPR, X_BPR_I, X_BPR_CUT, X_BPR_NAN, X_RMR, X_RMR_AB, X_RMR_NAN}

\* every list of at most n of these lines
Streams(n) == UNION {[1..k -> StreamLines] : k \in 0..n}

InitExt ==
    /\ content = EmptyString
    /\ parsed = NotRun
    /\ parser = "none"
    /\ transaction = NotRun
    /\ validation = NotRun
    /\ segments \in {Tokenize(ls, 0, UniversalDelimiters) : ls \in Streams(MaxStream)}
    /\ extracted = NotRun
    /\ extractor = "none"
    /\ IdleRoundTrip
    /\ IdleTracker
    /\ IdleService

\* extract834Members(segments)
Extract834 ==
    /\ extractor = "none"
    /\ extracted' = [run |-> TRUE, members |-> extract834Members(segments), payments |-> <<>>]
    /\ extractor' = "834"
    /\ UNCHANGED <<tokVars, valVars, segments, rtVars, trkVars, svcVars>>

\* extract820Payments(segments)
Extract820 ==
    /\ extractor = "none"
    /\ extracted' = [run |-> TRUE, members |-> <<>>, payments |-> extract820Payments(segments)]
    /\ extractor' = "820"
    /\ UNCHANGED <<tokVars, valVars, segments, rtVars, trkVars, svcVars>>

NextExt == Extract834 \/ Extract820

SpecExt == InitExt /\ [][NextExt]_vars

\* the positions of the segments of a stream with the given tag, in order
RECURSIVE PositionsFrom(_, _, _)
PositionsFrom(segs, tag, i) ==
    IF i > Len(segs) THEN <<>>
    ELSE (IF segs[i].tag = tag THEN <<i>> ELSE <<>>) \o PositionsFrom(segs, tag, i + 1)

Positions(segs, tag) == PositionsFrom(segs, tag, 1)

\* C9: member extraction yields one member per INS segment, in the order of
\* the INS segments: the k-th member carries the codes of the k-th INS, a
\* stream with no INS yields no member, and a member of a malformed INS is
\* there like the others, as are the members after it.
C9_OneMemberPerINS ==
    extractor = "834" =>
        LET ins == Positions(segments, INS)
        IN  /\ extracted.run
            /\ Len(extracted.members) = Len(ins)
            /\ \A k \in 1..Len(ins) :
                  /\ extracted.members[k].memberLevelCode = At(segments[ins[k]].elements, 1)
                  /\ extracted.members[k].relationshipCode = At(segments[ins[k]].elements, 2)
                  /\ extracted.members[k].maintenanceTypeCode = At(segments[ins[k]].elements, 3)

\* C9 witness: three INS segments, the second one malformed, three members
C9_Witness ==
    /\ extractor = "834"
    /\ Len(segments) = 3
    /\ \A i \in 1..3 : segments[i].tag = INS
    /\ Len(segments[2].elements) = 1
    /\ Len(extracted.members) = 3

\* C10: payment extraction yields one payment per BPR segment, in order, and
\* the remittance details of the k-th payment are those of the RMR segments
\* between the k-th BPR and the next BPR (the end of the stream for the last
\* one), in stream order: an RMR before the first BPR belongs to no payment
\* and a BPR followed by no RMR has no remittance detail.
C10_RemittanceOfClosestBPR ==
    extractor = "820" =>
        LET bpr == Positions(segments, BPR)
            upTo(k) == IF k < Len(bpr) THEN bpr[k + 1] - 1 ELSE Len(segments)
            rmrOf(k) == SelectSeq(SubSeq(segments, bpr[k] + 1, upTo(k)),
                                  LAMBDA s : s.tag = RMR)
        IN  /\ extracted.run
            /\ Len(extracted.payments) = Len(bpr)
            /\ \A k \in 1..Len(bpr) :
                  LET details == extracted.payments[k].remittanceDetails
                  IN  /\ extracted.payments[k].transactionHandlingCode
                            = At(segments[bpr[k]].elements, 1)
                      /\ Len(details) = Len(rmrOf(k))
                      /\ \A j \in 1..Len(details) :
                            /\ details[j].referenceQualifier = At(rmrOf(k)[j].elements, 1)
                            /\ details[j].memberGroupNumber = At(rmrOf(k)[j].elements, 2)

\* C10 witness: an RMR before the first BPR, then a BPR with one RMR: one
\* payment with that one remittance detail
C10_Witness ==
    /\ extractor = "820"
    /\ Len(segments) = 3
    /\ segments[1].tag = RMR
    /\ segments[2].tag = BPR
    /\ segments[3].tag = RMR
    /\ Len(extracted.payments) = 1
    /\ Len(extracted.payments[1].remittanceDetails) = 1


\* a text that is a decimal number from its first to its last character
IsDecimal(s) ==
    LET u        == IF s # <<>> /\ Head(s) \in {"+", "-"} THEN Tail(s) ELSE s
        whole    == LeadingDigits(u)
        afterW   == SubSeq(u, Len(whole) + 1, Len(u))
        fraction == IF afterW # <<>> /\ Head(afterW) = "." THEN LeadingDigits(Tail(afterW)) ELSE <<>>
    IN  /\ whole # <<>> \/ fraction # <<>>
        /\ \/ afterW = <<>>
           \/ Head(afterW) = "." /\ Len(afterW) = Len(fraction) + 1

\* the number 0
Zero == Number(FALSE, 0, <<>>)

\* an amount extracted from a field as C11 asks: never not-a-number, and 0
\* when the field is missing, empty or not a number
AmountAsSpecified(amount, field) ==
    /\ ~amount.nan
    /\ (field = Undefined \/ field = EmptyString \/ ~IsDecimal(field)) => amount = Zero

\* C11: in 820 extraction every amount field (the BPR monetary amount, the
\* RMR remittance amount and adjustment amount) that is missing, empty or
\* not a number extracts as the number 0, and no amount is not-a-number.
C11_BadAmountIsZero ==
    extractor = "820" =>
        LET bpr == Positions(segments, BPR)
            upTo(k) == IF k < Len(bpr) THEN bpr[k + 1] - 1 ELSE Len(segments)
            rmrOf(k) == SelectSeq(SubSeq(segments, bpr[k] + 1, upTo(k)),
                                  LAMBDA s : s.tag = RMR)
        IN  \A k \in 1..Len(extracted.payments) :
                /\ AmountAsSpecified(extracted.payments[k].monetaryAmount,
                                     At(segments[bpr[k]].elements, 2))
                /\ \A j \in 1..Len(extracted.payments[k].remittanceDetails) :
                      LET detail == extracted.payments[k].remittanceDetails[j]
                      IN  /\ AmountAsSpecified(detail.remittanceAmount, At(rmrOf(k)[j].elements, 3))
                          /\ AmountAsSpecified(detail.adjustmentAmount, At(rmrOf(k)[j].elements, 4))

-----------------------------------------------------------------------------
(* Format detection on whole documents: the texts are lists of segment     *)
(* lines, the operations are the two parsers, whose type is the result of  *)
(* detectEDIFormat (universalEDIParser.ts:132) and of detectEDIType        *)
(* (part_001:38).                                                          *)

\* segments.join('\n')
RECURSIVE JoinLines(_)
JoinLines(lines) ==
    IF lines = <<>> THEN <<>>
    ELSE IF Len(lines) = 1 THEN Head(lines)
    ELSE Head(lines) \o <<"\n">> \o JoinLines(Tail(lines))

\* the lists of up to n lines of a pool
ListsOf(pool, n) == UNION {[1..k -> pool] : k \in 0..n}

\* Most lines of a document handed to the detector.
MaxDetLines == 3

D_ST834 == <<"S", "T", "*", "8", "3", "4", "*", "0", "0", "0", "1">>
D_ST820 == <<"S", "T", "*", "8", "2", "0", "*", "0", "0", "0", "1">>
D_ST999 == <<"S", "T", "*", "9", "9", "9", "*", "0", "0", "0", "1">>
D_ST123 == <<"S", "T", "*", "1", "2", "3", "*", "0", "0", "0", "1">>
D_GS    == <<"G", "S", "*", "T", "E", "S", "T", "*", "8", "3", "5", "*", "X">>
D_BGN   == <<"B", "G", "N", "*", "0", "0", "*", "1">>
D_INS   == <<"I", "N", "S", "*", "Y", "*", "1", "8">>
D_BPR   == <<"B", "P", "R", "*", "C", "*", "1">>
D_RMR   == <<"R", "M", "R", "*", "I", "V", "*", "G", "1">>
D_CLP   == <<"C", "L", "P", "*", "1", "*", "2">>

DetLines == {D_ST834, D_ST820, D_ST999, D_ST123, D_GS, D_BGN, D_INS, D_BPR, D_RMR, D_CLP}

InitDet ==
    /\ content \in {JoinLines(ls) : ls \in ListsOf(DetLines, MaxDetLines)}
    /\ parsed = NotRun
    /\ parser = "none"
    /\ transaction = NotRun
    /\ validation = NotRun
    /\ segments = <<>>
    /\ extracted = NotRun
    /\ extractor = "none"
    /\ IdleRoundTrip
    /\ IdleTracker
    /\ IdleService

SpecDet == InitDet /\ [][NextTok]_vars

\* the ST segments of the parsed document whose first element is a supported code
SupportedHeaders ==
    SelectSeq(parsed.segments, LAMBDA s : s.tag = ST /\ At(s.elements, 1) \in FormatCodes)

\* C15: under the primary strategy detectEDIFormat takes the code only from
\* the segments whose tag is ST: the result is the first element of the
\* first ST segment whose first element is a supported code; without such a
\* segment the text of the other segments decides nothing, the result is the
\* one of the fallback; and the result is a supported code or unknown.
C15_CodeOnlyFromSTSegments ==
    parser = "universal" =>
        /\ parsed.type \in FormatCodes \cup {Unknown}
        /\ IF SupportedHeaders # <<>>
           THEN parsed.type = At(SupportedHeaders[1].elements, 1)
           ELSE parsed.type = DetectByPattern(ToLowerCase(content))

\* the formats of the fallback, in the order C16 gives
FallbackOrder == <<T834, T820, T837, T835, T271, T850, T855, T856, T810>>

\* the two markers of a format of the fallback
Markers(fmt) ==
    CASE fmt = T834 -> <<<<"b", "g", "n", "*">>, <<"i", "n", "s", "*">>>>
      [] fmt = T820 -> <<<<"b", "p", "r", "*">>, <<"r", "m", "r", "*">>>>
      [] fmt = T837 -> <<<<"b", "h", "t", "*">>, <<"c", "l", "m", "*">>>>
      [] fmt = T835 -> <<<<"b", "p", "r", "*">>, <<"c", "l", "p", "*">>>>
      [] fmt = T271 -> <<<<"b", "h", "t", "*">>, <<"e", "b", "*">>>>
      [] fmt = T850 -> <<<<"b", "e", "g", "*">>, <<"p", "o", "1", "*">>>>
      [] fmt = T855 -> <<<<"b", "a", "k", "*">>, <<"a", "c", "k", "*">>>>
      [] fmt = T856 -> <<<<"b", "s", "n", "*">>, <<"t", "d", "1", "*">>>>
      [] fmt = T810 -> <<<<"b", "i", "g", "*">>, <<"i", "t", "1", "*">>>>

\* the places of FallbackOrder whose two markers both occur in the
\* lower-cased content
MatchingPairs ==
    {k \in 1..Len(FallbackOrder) :
        /\ Includes(ToLowerCase(content), Markers(FallbackOrder[k])[1])
        /\ Includes(ToLowerCase(content), Markers(FallbackOrder[k])[2])}

\* the supported codes that follow the characters ST* somewhere in the content
CodesAfterST == {c \in FormatCodes : Includes(content, <<"S", "T", "*">> \o c)}

C16_WitnessHeader ==
    /\ parser = "universal"
    /\ SupportedHeaders # <<>>
    /\ MatchingPairs = {2}
    /\ parsed.type = T834

-----------------------------------------------------------------------------
(* Payer identification and interchange metadata on whole documents.       *)

\* Most lines of a document handed to the parsers for its payer and metadata.
MaxPayLines == 3

\* an ISA with 16 elements after the tag, the sender a payer id in lower case
P_ISA_16 == <<"I", "S", "A", "*", "0", "0", "*", "*", "0", "0", "*", "*", "Z", "Z", "*", "a", "e", "t", "n", "a", "0", "1", "*", "Z", "Z", "*", "R", "C", "V", "*", "2", "5", "0", "9", "3", "0", "*", "1", "2", "0", "0", "*", "^", "*", "0", "0", "5", "0", "1", "*", "0", "0", "0", "0", "0", "0", "9", "0", "5", "*", "0", "*", "P", "*", ":">>
\* an ISA with 15 elements after the tag, sender and receiver two payers
P_ISA_15 == <<"I", "S", "A", "*", "0", "0", "*", "*", "0", "0", "*", "*", "Z", "Z", "*", "K", "A", "I", "S", "E", "R", "*", "Z", "Z", "*", "x", "-", "A", "e", "t", "n", "a", " ", "I", "n", "c", ".", "*", "2", "5", "0", "9", "3", "0", "*", "1", "2", "0", "0", "*", "U", "*", "0", "0", "5", "0", "1", "*", "0", "0", "0", "0", "0", "0", "9", "0", "6", "*", "0", "*", "P">>
\* an ISA with 13 elements after the tag, no payer
P_ISA_13 == <<"I", "S", "A", "*", "0", "0", "*", "*", "0", "0", "*", "*", "Z", "Z", "*", "S", "N", "D", "*", "Z", "Z", "*", "R", "C", "V", "*", "2", "5", "0", "9", "3", "0", "*", "1", "2", "0", "0", "*", "U", "*", "0", "0", "5", "0", "1", "*", "0", "0", "0", "0", "0", "0", "9", "0", "7">>
\* an ISA with 12 elements after the tag, no payer
P_ISA_12 == <<"I", "S", "A", "*", "0", "0", "*", "*", "0", "0", "*", "*", "Z", "Z", "*", "S", "N", "D", "*", "Z", "Z", "*", "R", "C", "V", "*", "2", "5", "0", "9", "3", "0", "*", "1", "2", "0", "0", "*", "U", "*", "0", "0", "5", "0", "1">>
P_N1_KAISER == <<"N", "1", "*", "P", "5", "*", "K", "a", "i", "s", "e", "r", " ", "P", "e", "r", "m", "a", "n", "e", "n", "t", "e", "*", "F", "I", "*", "1">>
P_N1_BCBS   == <<"N", "1", "*", "I", "N", "*", "b", "l", "u", "e", " ", "c", "r", "o", "s", "s", " ", "b", "l", "u", "e", " ", "s", "h", "i", "e", "l", "d", " ", "o", "f", " ", "A", "l", "a", "b", "a", "m", "a">>
P_N1_ACME   == <<"N", "1", "*", "P", "5", "*", "A", "C", "M", "E", " ", "C", "o", "r", "p">>
P_N1_CUT    == <<"N", "1", "*", "I", "N">>

PayLines == {P_ISA_16, P_ISA_15, P_ISA_13, P_ISA_12,
             P_N1_KAISER, P_N1_BCBS, P_N1_ACME, P_N1_CUT}

InitPay ==
    /\ content \in {JoinLines(ls) : ls \in ListsOf(PayLines, MaxPayLines)}
    /\ parsed = NotRun
    /\ parser = "none"
    /\ transaction = NotRun
    /\ validation = NotRun
    /\ segments = <<>>
    /\ extracted = NotRun
    /\ extractor = "none"
    /\ IdleRoundTrip
    /\ IdleTracker
    /\ IdleService

SpecPay == InitPay /\ [][NextTok]_vars

\* the ids of the directory, in directory order
DirectoryOrder == <<<<"A", "E", "T", "N", "A">>, <<"K", "A", "I", "S", "E", "R">>, <<"B", "C", "B", "S", "_", "A", "L">>>>

\* the display name of a directory entry
DisplayName(id) ==
    CASE id = <<"A", "E", "T", "N", "A">>   -> <<"A", "e", "t", "n", "a", " ", "I", "n", "c", ".">>
      [] id = <<"K", "A", "I", "S", "E", "R">>  -> <<"K", "a", "i", "s", "e", "r", " ", "F", "o", "u", "n", "d", "a", "t", "i", "o", "n", " ", "H", "e", "a", "l", "t", "h", " ", "P", "l", "a", "n">>
      [] id = <<"B", "C", "B", "S", "_", "A", "L">> -> <<"B", "l", "u", "e", " ", "C", "r", "o", "s", "s", " ", "B", "l", "u", "e", " ", "S", "h", "i", "e", "l", "d", " ", "o", "f", " ", "A", "l", "a", "b", "a", "m", "a">>

\* the id or the display name of an entry is a substring of a field, case
\* ignored
NamedIn(id, field) ==
    /\ field # Undefined
    /\ \/ Includes(ToLowerCase(field), ToLowerCase(id))
       \/ Includes(ToLowerCase(field), ToLowerCase(DisplayName(id)))

\* the first entry, in directory order, named in one of some fields; Null
\* when none is
FirstNamedIn(fields) ==
    LET hits == {k \in 1..Len(DirectoryOrder) :
                    \E f \in fields : NamedIn(DirectoryOrder[k], f)}
    IN  IF hits = {} THEN Null
        ELSE DirectoryOrder[CHOOSE k \in hits : \A j \in hits : k <= j]

\* the entry the ISA names: sender id and receiver id of the ISA segment
NamedByISA ==
    LET isa == SelectSeq(parsed.segments, LAMBDA s : s.tag = ISA)
    IN  IF isa = <<>> THEN Null
        ELSE FirstNamedIn({At(isa[1].elements, 6), At(isa[1].elements, 8)})

\* the entries the N1 segments name, in stream order, the segments that name
\* none left out
NamedByN1 ==
    LET n1    == SelectSeq(parsed.segments, LAMBDA s : s.tag = N1)
        named == [i \in 1..Len(n1) |-> FirstNamedIn({At(n1[i].elements, 2)})]
    IN  SelectSeq(named, LAMBDA id : id # Null)

\* C17: identifyPayer returns the first directory entry whose id or display
\* name is, case ignored, a substring of the ISA sender or receiver id; only
\* when the ISA names no entry, the first entry an N1 entity name names, the
\* N1 segments taken in stream order; and null exactly when no field names
\* an entry.
C17_PayerOfISAThenN1 ==
    parser = "universal" =>
        parsed.payer.id =
            IF NamedByISA # Null THEN NamedByISA
            ELSE IF NamedByN1 # <<>> THEN NamedByN1[1]
            ELSE Undefined

\* an ISA that names no entry, a first N1 that names none and a second N1
\* that names an entry by its display name in lower case
C17_Witness ==
    /\ parser = "universal"
    /\ \E i \in 1..Len(parsed.segments) : parsed.segments[i].tag = ISA
    /\ NamedByISA = Null
    /\ Len(SelectSeq(parsed.segments, LAMBDA s : s.tag = N1)) = 2
    /\ Len(NamedByN1) = 1
    /\ parsed.payer.id = <<"B", "C", "B", "S", "_", "A", "L">>

\* C19: after parseEDIContent a metadata field, controlNumber among them, is
\* not empty only if the input has an ISA segment with at least 16 elements
\* after the tag; with no ISA segment, or one with fewer elements, every
\* field stays the empty string.
C19_MetadataNeedsSixteenElements ==
    parser # "none" =>
        \/ \E i \in 1..Len(parsed.segments) :
              /\ parsed.segments[i].tag = ISA
              /\ Len(parsed.segments[i].elements) - 1 >= 16
        \/ \A f \in DOMAIN parsed.metadata : parsed.metadata[f] = EmptyString

-----------------------------------------------------------------------------
(* The conversion to JSON and back (universalEDIParser.ts:215-516).        *)

\* arr.find(s => s.tag === tag), UndefinedSegment when there is none
FindSegment(segs, tag) ==
    IF FindTag(segs, tag) = 0 THEN UndefinedSegment ELSE segs[FindTag(segs, tag)]

\* extractEntities(segments): one entity for each N1 segment
extractEntities(segs) ==
    LET n1 == SelectSeq(segs, LAMBDA s : s.tag = N1)
    IN  [i \in 1..Len(n1) |->
            [entityQualifier |-> At(n1[i].elements, 1),
             entityName      |-> At(n1[i].elements, 2),
             idQualifier     |-> At(n1[i].elements, 3),
             id              |-> At(n1[i].elements, 4)]]

\* convertEDIToJSON(transaction); a header object that stays {} reads
\* undefined in every field
convertEDIToJSON(tx) ==
    LET isaSegment == FindSegment(tx.segments, ISA)
        gsSegment  == FindSegment(tx.segments, GS)
        stSegment  == FindSegment(tx.segments, ST)
    IN  [run |-> TRUE,
         header |->
            [interchangeControl |->
                [authorizationQualifier   |-> At(isaSegment.elements, 1),
                 authorizationInformation |-> At(isaSegment.elements, 2),
                 securityQualifier        |-> At(isaSegment.elements, 3),
                 securityInformation      |-> At(isaSegment.elements, 4),
                 senderQualifier          |-> At(isaSegment.elements, 5),
                 senderId                 |-> At(isaSegment.elements, 6),
                 receiverQualifier        |-> At(isaSegment.elements, 7),
                 receiverId               |-> At(isaSegment.elements, 8),
                 interchangeDate          |-> At(isaSegment.elements, 9),
                 interchangeTime          |-> At(isaSegment.elements, 10),
                 controlStandards         |-> At(isaSegment.elements, 11),
                 controlVersion           |-> At(isaSegment.elements, 12),
                 controlNumber            |-> At(isaSegment.elements, 13),
                 acknowledgmentRequested  |-> At(isaSegment.elements, 14),
                 testIndicator            |-> At(isaSegment.elements, 15)],
             functionalGroup |->
                [functionalCode      |-> At(gsSegment.elements, 1),
                 applicationSender   |-> At(gsSegment.elements, 2),
                 applicationReceiver |-> At(gsSegment.elements, 3),
                 date                |-> At(gsSegment.elements, 4),
                 time                |-> At(gsSegment.elements, 5),
                 groupControlNumber  |-> At(gsSegment.elements, 6),
                 responsibleAgency   |-> At(gsSegment.elements, 7),
                 version             |-> At(gsSegment.elements, 8)],
             transactionSet |->
                [transactionSetIdentifier    |-> At(stSegment.elements, 1),
                 transactionSetControlNumber |-> At(stSegment.elements, 2)]],
         data |->
            [entities |-> extractEntities(tx.segments),
             members  |-> IF tx.type = T834 THEN extract834Members(tx.segments) ELSE <<>>,
             payments |-> IF tx.type = T820 THEN extract820Payments(tx.segments) ELSE <<>>,
             claims   |-> <<>>],
         metadata |->
            [originalFormat |-> tx.type,
             statistics     |-> tx.statistics]]

\* the fields of a line, an asterisk between them
RECURSIVE JoinStar(_)
JoinStar(fields) ==
    IF fields = <<>> THEN <<>>
    ELSE IF Len(fields) = 1 THEN Head(fields)
    ELSE Head(fields) \o <<"*">> \o JoinStar(Tail(fields))

\* s.padEnd(n)
PadEnd(s, n) == s \o [i \in 1..(n - Len(s)) |-> " "]

\* the text of a number in a template literal, for the numbers parseFloat
\* reads here (no exponent)
NumberString(n) ==
    (IF n.negative THEN <<"-">> ELSE <<>>)
    \o NumberToString(n.whole)
    \o (IF n.fraction = <<>> THEN <<>> ELSE <<".">> \o n.fraction)

\* `${n || text}` for a number n: NaN and 0 are falsy
NumberOrElse(n, text) ==
    IF n.nan \/ (n.whole = 0 /\ n.fraction = <<>>) THEN text ELSE NumberString(n)

\* reconstruct834Segments: the lines of one member
MemberLines(member) ==
    <<JoinStar(<<INS, OrElse(member.memberLevelCode, <<"Y">>),
                 OrElse(member.relationshipCode, <<"1", "8">>),
                 OrElse(member.maintenanceTypeCode, <<"0", "3", "0">>),
                 OrElse(member.maintenanceReasonCode, <<"A", "I">>),
                 OrElse(member.benefitStatusCode, <<"A">>),
                 EmptyString, EmptyString, <<"A", "C", "~">>>>)>>
    \o (IF member.name # UndefinedName
        THEN <<JoinStar(<<NM1, <<"I", "L">>, <<"1">>,
                          OrElse(member.name.lastName, EmptyString),
                          OrElse(member.name.firstName, EmptyString),
                          OrElse(member.name.middleName, EmptyString),
                          EmptyString, <<"3", "4">>,
                          OrElse(member.name.id, EmptyString) \o <<"~">>>>)>>
        ELSE <<>>)
    \o <<JoinStar(<<DMG, <<"D", "8">>,
                    OrElse(member.demographics.birthDate, EmptyString),
                    OrElse(member.demographics.genderCode, EmptyString) \o <<"~">>>>)>>
    \o [i \in 1..Len(member.healthCoverage) |->
          LET coverage == member.healthCoverage[i]
          IN  JoinStar(<<HD, OrElse(coverage.maintenanceTypeCode, <<"0", "3", "0">>),
                         EmptyString,
                         OrElse(coverage.insuranceLineCode, <<"H", "L", "T">>),
                         OrElse(coverage.planCoverageDescription, EmptyString),
                         OrElse(coverage.coverageLevelCode, <<"E", "M", "P">>) \o <<"~">>>>)]

\* reconstruct834Segments(members)
reconstruct834Segments(mbrs) ==
    <<<<"B", "G", "N", "*", "0", "0", "*", "A", "B", "C", "1", "2", "3", "*", "2", "0", "2", "4", "1", "2", "0", "8", "*", "1", "2", "0", "0", "*", "E", "T", "*", "O", "r", "i", "g", "i", "n", "a", "l", "~">>>>
    \o Concat([i \in 1..Len(mbrs) |-> MemberLines(mbrs[i])])

\* reconstruct820Segments: the lines of one payment
PaymentLines(payment) ==
    <<JoinStar(<<BPR, OrElse(payment.transactionHandlingCode, <<"I">>),
                 NumberOrElse(payment.monetaryAmount, <<"0">>),
                 OrElse(payment.creditDebitFlag, <<"C">>),
                 OrElse(payment.paymentMethodCode, <<"A", "C", "H">>),
                 OrElse(payment.paymentFormatCode, <<"C", "C", "P">>),
                 EmptyString,
                 OrElse(payment.originatingCompanyId, EmptyString),
                 OrElse(payment.originatingCompanySupplementalCode, EmptyString),
                 EmptyString,
                 OrElse(payment.receivingCompanyId, EmptyString),
                 OrElse(payment.receivingCompanySupplementalCode, EmptyString),
                 EmptyString, EmptyString, EmptyString, EmptyString,
                 OrElse(payment.effectiveEntryDate, EmptyString) \o <<"~">>>>)>>
    \o [i \in 1..Len(payment.remittanceDetails) |->
          LET remittance == payment.remittanceDetails[i]
          IN  JoinStar(<<RMR, OrElse(remittance.referenceQualifier, <<"P", "O">>),
                         OrElse(remittance.memberGroupNumber, EmptyString),
                         NumberOrElse(remittance.remittanceAmount, <<"0">>),
                         NumberOrElse(remittance.adjustmentAmount, <<"0">>) \o <<"~">>>>)]

\* reconstruct820Segments(payments)
reconstruct820Segments(payments) ==
    Concat([i \in 1..Len(payments) |-> PaymentLines(payments[i])])

\* convertJSONToEDI(jsonData): the three header objects are objects, so each
\* of the three header lines is written
convertJSONToEDI(jsonData) ==
    LET isa == jsonData.header.interchangeControl
        gs  == jsonData.header.functionalGroup
        st  == jsonData.header.transactionSet
        headers ==
            <<JoinStar(<<ISA, OrElse(isa.authorizationQualifier, <<"0", "0">>),
                         OrElse(isa.authorizationInformation, <<" ", " ", " ", " ", " ", " ", " ", " ", " ", " ">>),
                         OrElse(isa.securityQualifier, <<"0", "0">>),
                         OrElse(isa.securityInformation, <<" ", " ", " ", " ", " ", " ", " ", " ", " ", " ">>),
                         OrElse(isa.senderQualifier, <<"Z", "Z">>),
                         PadEnd(OrElse(isa.senderId, EmptyString), 15),
                         OrElse(isa.receiverQualifier, <<"Z", "Z">>),
                         PadEnd(OrElse(isa.receiverId, EmptyString), 15),
                         OrElse(isa.interchangeDate, EmptyString),
                         OrElse(isa.interchangeTime, EmptyString),
                         <<"U">>,
                         OrElse(isa.controlVersion, <<"0", "0", "5", "0", "1">>),
                         OrElse(isa.controlNumber, <<"0", "0", "0", "0", "0", "0", "0", "0", "1">>),
                         OrElse(isa.acknowledgmentRequested, <<"0">>),
                         OrElse(isa.testIndicator, <<"P">>),
                         <<">">>>>),
              JoinStar(<<GS, OrElse(gs.functionalCode, <<"B", "E">>),
                         OrElse(gs.applicationSender, EmptyString),
                         OrElse(gs.applicationReceiver, EmptyString),
                         OrElse(gs.date, EmptyString),
                         OrElse(gs.time, EmptyString),
                         OrElse(gs.groupControlNumber, <<"1">>),
                         OrElse(gs.responsibleAgency, <<"X">>),
                         OrElse(gs.version, <<"0", "0", "5", "0", "1", "0", "X", "2", "2", "0", "A", "1">>) \o <<"~">>>>),
              JoinStar(<<ST, OrElse(st.transactionSetIdentifier, <<"8", "3", "4">>),
                         OrElse(st.transactionSetControlNumber, <<"0", "0", "0", "1">>) \o <<"~">>>>)>>
        body ==
            CASE jsonData.metadata.originalFormat = T834 ->
                    reconstruct834Segments(jsonData.data.members)
              [] jsonData.metadata.originalFormat = T820 ->
                    reconstruct820Segments(jsonData.data.payments)
              [] OTHER -> <<>>
        lines == headers \o body
        trailers ==
            <<JoinStar(<<SE, NumberToString(Len(lines) + 1),
                         OrElse(st.transactionSetControlNumber, <<"0", "0", "0", "1">>) \o <<"~">>>>),
              JoinStar(<<GE, <<"1">>, OrElse(gs.groupControlNumber, <<"1">>) \o <<"~">>>>),
              JoinStar(<<IEA, <<"1">>, OrElse(isa.controlNumber, <<"0", "0", "0", "0", "0", "0", "0", "0", "1">>) \o <<"~">>>>)>>
    IN  JoinLines(lines \o trailers)

-----------------------------------------------------------------------------
(* The round trip as a state machine: a document is parsed, converted to   *)
(* JSON, written back as EDI, and the text is parsed and converted again.  *)

\* Most lines of a document sent through the round trip.
MaxRtLines == 3

R_ST834 == <<"S", "T", "*", "8", "3", "4", "*", "0", "0", "0", "1">>
R_ST820 == <<"S", "T", "*", "8", "2", "0", "*", "0", "0", "0", "2">>
R_BGN   == <<"B", "G", "N", "*", "0", "0", "*", "1">>
R_N1    == <<"N", "1", "*", "P", "5", "*", "A", "C", "M", "E", "*", "F", "I", "*", "1", "2">>

RtLines == {R_ST834, R_ST820, R_BGN, R_N1,
            X_INS, X_INS_DEP, X_NM1_IL, X_DMG, X_HD, X_BPR, X_BPR_I, X_RMR}

InitRt ==
    /\ content \in {JoinLines(ls) : ls \in ListsOf(RtLines, MaxRtLines)}
    /\ parsed = NotRun
    /\ parser = "none"
    /\ transaction = NotRun
    /\ validation = NotRun
    /\ segments = <<>>
    /\ extracted = NotRun
    /\ extractor = "none"
    /\ IdleRoundTrip
    /\ IdleTracker
    /\ IdleService

\* convertEDIToJSON(parsed)
ToJSON ==
    /\ parser = "universal"
    /\ stage = "none"
    /\ json' = convertEDIToJSON(parsed)
    /\ stage' = "json"
    /\ UNCHANGED <<tokVars, valVars, extVars, rebuilt, reparsed, trkVars, svcVars>>

\* convertJSONToEDI(json)
ToEDI ==
    /\ stage = "json"
    /\ rebuilt' = convertJSONToEDI(json)
    /\ stage' = "edi"
    /\ UNCHANGED <<tokVars, valVars, extVars, json, reparsed, trkVars, svcVars>>

\* convertEDIToJSON(parseEDIContent(rebuilt))
ParseAgain ==
    /\ stage = "edi"
    /\ reparsed' = convertEDIToJSON(parseEDIContentUniversal(rebuilt))
    /\ stage' = "again"
    /\ UNCHANGED <<tokVars, valVars, extVars, json, rebuilt, trkVars, svcVars>>

NextRt == ParseUniversal \/ ToJSON \/ ToEDI \/ ParseAgain

SpecRt == InitRt /\ [][NextRt]_vars

\* C13: for an 834 or 820 transaction, whichever detection strategy gave its
\* type, the extraction from the text convertJSONToEDI wrote yields as many
\* members (payments) as the first extraction, each with as many health
\* coverages (remittance details).
C13_RoundTripKeepsCounts ==
    (stage = "again" /\ json.metadata.originalFormat \in {T834, T820}) =>
        /\ Len(reparsed.data.members) = Len(json.data.members)
        /\ Len(reparsed.data.payments) = Len(json.data.payments)
        /\ \A k \in 1..Len(json.data.members) :
              k <= Len(reparsed.data.members) =>
                  Len(reparsed.data.members[k].healthCoverage)
                      = Len(json.data.members[k].healthCoverage)
        /\ \A k \in 1..Len(json.data.payments) :
              k <= Len(reparsed.data.payments) =>
                  Len(reparsed.data.payments[k].remittanceDetails)
                      = Len(json.data.payments[k].remittanceDetails)

\* a text the first extraction captured, not empty, is found again
Kept(before, after) == (before # Undefined /\ before # EmptyString) => after = before

\* an amount the first extraction captured is found again
KeptAmount(before, after) == ~before.nan => after = before

\* the fields of C14 of a member and of the same member after the round trip
MemberKept(before, after) ==
    /\ Kept(before.name.lastName, after.name.lastName)
    /\ Kept(before.name.firstName, after.name.firstName)
    /\ Kept(before.name.middleName, after.name.middleName)
    /\ Kept(before.name.id, after.name.id)
    /\ Kept(before.demographics.birthDate, after.demographics.birthDate)
    /\ Kept(before.demographics.genderCode, after.demographics.genderCode)
    /\ Len(after.healthCoverage) >= Len(before.healthCoverage)
    /\ \A i \in 1..Len(before.healthCoverage) :
          i <= Len(after.healthCoverage) =>
              /\ Kept(before.healthCoverage[i].maintenanceTypeCode,
                      after.healthCoverage[i].maintenanceTypeCode)
              /\ Kept(before.healthCoverage[i].insuranceLineCode,
                      after.healthCoverage[i].insuranceLineCode)
              /\ Kept(before.healthCoverage[i].planCoverageDescription,
                      after.healthCoverage[i].planCoverageDescription)
              /\ Kept(before.healthCoverage[i].coverageLevelCode,
                      after.healthCoverage[i].coverageLevelCode)

\* the fields of C14 of a payment and of the same payment after the round trip
PaymentKept(before, after) ==
    /\ Kept(before.transactionHandlingCode, after.transactionHandlingCode)
    /\ KeptAmount(before.monetaryAmount, after.monetaryAmount)
    /\ Kept(before.creditDebitFlag, after.creditDebitFlag)
    /\ Kept(before.paymentMethodCode, after.paymentMethodCode)
    /\ Kept(before.paymentFormatCode, after.paymentFormatCode)
    /\ Kept(before.originatingCompanyId, after.originatingCompanyId)
    /\ Kept(before.receivingCompanyId, after.receivingCompanyId)
    /\ Kept(before.effectiveEntryDate, after.effectiveEntryDate)
    /\ Len(after.remittanceDetails) >= Len(before.remittanceDetails)
    /\ \A i \in 1..Len(before.remittanceDetails) :
          i <= Len(after.remittanceDetails) =>
              /\ Kept(before.remittanceDetails[i].memberGroupNumber,
                      after.remittanceDetails[i].memberGroupNumber)
              /\ KeptAmount(before.remittanceDetails[i].remittanceAmount,
                            after.remittanceDetails[i].remittanceAmount)
              /\ KeptAmount(before.remittanceDetails[i].adjustmentAmount,
                            after.remittanceDetails[i].adjustmentAmount)

\* C14: every field value the first extraction captured, not empty, that
\* reconstruction writes is found again after the round trip in the same
\* field of the same entity: names, member id, birth date, gender and
\* coverage codes of the members; codes, amount, company ids and entry date
\* of the payments; group number and amounts of the remittance details.
\* Stated for the transactions whose first ST segment names their type, for
\* which the rebuilt text is detected as the same type.
C14_RoundTripKeepsFields ==
    (/\ stage = "again"
     /\ json.metadata.originalFormat = json.header.transactionSet.transactionSetIdentifier) =>
        /\ \A k \in 1..Len(json.data.members) :
              /\ k <= Len(reparsed.data.members)
              /\ MemberKept(json.data.members[k], reparsed.data.members[k])
        /\ \A k \in 1..Len(json.data.payments) :
              /\ k <= Len(reparsed.data.payments)
              /\ PaymentKept(json.data.payments[k], reparsed.data.payments[k])

-----------------------------------------------------------------------------
(* The member lifecycle tracker (lifecycleTracker.ts).                      *)
(*                                                                          *)
(* The registry this.members is the sequence of its records in insertion   *)
(* order. The clock counts whole days: a Date is a day number (days since   *)
(* 1970-01-01), and an invalid Date is InvalidDate. generateId returns an   *)
(* id it has not returned before. Messages and details of alerts and       *)
(* events are left out.                                                     *)

\* generateId(): the n-th id
GenerateId(n) == <<"g">> \o NumberToString(n)

\* new Date(NaN)
InvalidDate == [valid |-> FALSE, day |-> 0]

\* a Date of the given day
DateOf(day) == [valid |-> TRUE, day |-> day]

\* new Date(year, month, day) with month counted from 0, as a day number
DaysFromCivil(year, month, day) ==
    LET months == year * 12 + month
        m      == (months % 12) + 1
        y      == (months \div 12) - (IF m <= 2 THEN 1 ELSE 0)
        era    == y \div 400
        yoe    == y - era * 400
        doy    == ((153 * (m + (IF m > 2 THEN -3 ELSE 9)) + 2) \div 5) + day - 1
        doe    == yoe * 365 + (yoe \div 4) - (yoe \div 100) + doy
    IN  era * 146097 + doe - 719468

\* parseDate(dateStr): a text of 8 digits is year, month and day; the other
\* texts of the model are no dates
parseDate(dateStr) ==
    IF IsDigits(dateStr, 8)
    THEN DateOf(DaysFromCivil(DigitsValue(SubSeq(dateStr, 1, 4)),
                              DigitsValue(SubSeq(dateStr, 5, 6)) - 1,
                              DigitsValue(SubSeq(dateStr, 7, 8))))
    ELSE InvalidDate

\* formatDate(dateStr)
formatDate(dateStr) ==
    IF Len(dateStr) = 8
    THEN SubSeq(dateStr, 1, 4) \o <<"-">> \o SubSeq(dateStr, 5, 6) \o <<"-">> \o SubSeq(dateStr, 7, 8)
    ELSE dateStr

\* determineEventType(maintenanceType, maintenanceReason)
determineEventType(maintenanceType, maintenanceReason) ==
    CASE maintenanceType = <<"0", "2", "1">> -> "enrollment"
      [] maintenanceType = <<"0", "0", "1">> -> "change"
      [] maintenanceType = <<"0", "2", "4">> -> "termination"
      [] maintenanceType = <<"0", "2", "5">> -> "reinstatement"
      [] maintenanceType = <<"0", "3", "0">> ->
            (CASE maintenanceReason = <<"A", "I">> -> "enrollment"
               [] maintenanceReason = <<"X", "N">> -> "termination"
               [] maintenanceReason = <<"E", "C">> -> "cobra_election"
               [] OTHER -> "change")
      [] OTHER -> "change"

\* determineStatus(eventType)
determineStatus(eventType) ==
    CASE eventType = "termination"    -> "terminated"
      [] eventType = "cobra_election" -> "cobra"
      [] OTHER -> "active"

\* extractEffectiveDate(segments) || new Date()
extractEffectiveDate(segs, now) ==
    LET dtp == SelectSeq(segs, LAMBDA s : s.tag = DTP /\ At(s.elements, 1) = <<"3", "4", "8">>)
    IN  IF dtp # <<>> /\ Truthy(At(dtp[1].elements, 3))
        THEN parseDate(At(dtp[1].elements, 3))
        ELSE DateOf(now)

\* one row of the matrix of levenshteinDistance: the row of the character c
\* of str2 from the row above it
RECURSIVE LevenshteinRow(_, _, _, _)
LevenshteinRow(above, c, str1, row) ==
    IF Len(row) = Len(str1) + 1 THEN row
    ELSE LET j    == Len(row)
             Min(a, b) == IF a <= b THEN a ELSE b
             cell == IF c = str1[j] THEN above[j]
                     ELSE Min(above[j] + 1, Min(row[j] + 1, above[j + 1] + 1))
         IN  LevenshteinRow(above, c, str1, Append(row, cell))

\* the rows of the matrix, one for each character of str2
RECURSIVE LevenshteinRows(_, _, _)
LevenshteinRows(above, str2, str1) ==
    IF str2 = <<>> THEN above
    ELSE LevenshteinRows(LevenshteinRow(above, Head(str2), str1, <<above[1] + 1>>),
                         Tail(str2), str1)

\* levenshteinDistance(str1, str2)
levenshteinDistance(str1, str2) ==
    LevenshteinRows([j \in 1..(Len(str1) + 1) |-> j - 1], str2, str1)[Len(str1) + 1]

\* similarity(str1, str2) > this.duplicateThreshold, the threshold 0.85
\* written as 85 hundredths
Similar(str1, str2) ==
    LET longer  == IF Len(str1) > Len(str2) THEN str1 ELSE str2
        shorter == IF Len(str1) > Len(str2) THEN str2 ELSE str1
    IN  \/ Len(longer) = 0
        \/ 100 * (Len(longer) - levenshteinDistance(longer, shorter)) > 85 * Len(longer)

\* findMember without the match on the member id: only the match on name
\* and birth date
FindMemberByNameOnly(mbrs, memberId, memberData) ==
    LET fuzzy == {k \in 1..Len(mbrs) :
                     /\ Similar(mbrs[k].firstName, memberData.firstName)
                     /\ Similar(mbrs[k].lastName, memberData.lastName)
                     /\ mbrs[k].dateOfBirth = memberData.dateOfBirth}
    IN  IF /\ Truthy(memberData.firstName)
           /\ Truthy(memberData.lastName)
           /\ Truthy(memberData.dateOfBirth)
           /\ fuzzy # {}
        THEN CHOOSE k \in fuzzy : \A j \in fuzzy : k <= j
        ELSE 0

\* findMember(memberId, memberData): the place of the record in the
\* registry, 0 for null
findMember(mbrs, memberId, memberData) ==
    LET exact == {k \in 1..Len(mbrs) : mbrs[k].memberId = memberId}
        fuzzy == {k \in 1..Len(mbrs) :
                     /\ Similar(mbrs[k].firstName, memberData.firstName)
                     /\ Similar(mbrs[k].lastName, memberData.lastName)
                     /\ mbrs[k].dateOfBirth = memberData.dateOfBirth}
        first(S) == CHOOSE k \in S : \A j \in S : k <= j
    IN  IF exact # {} THEN first(exact)
        ELSE IF /\ Truthy(memberData.firstName)
                /\ Truthy(memberData.lastName)
                /\ Truthy(memberData.dateOfBirth)
                /\ fuzzy # {}
        THEN first(fuzzy)
        ELSE 0

\* a MemberAlert
MemberAlert(id, type, severity, now) ==
    [id |-> id, type |-> type, severity |-> severity, dateCreated |-> now, resolved |-> FALSE]

\* currentMember = { lifecycle: [], healthCoverage: [], alerts: [] }
NewMemberData ==
    [firstName |-> Undefined, lastName |-> Undefined, memberId |-> Undefined,
     dateOfBirth |-> Undefined, gender |-> Undefined, ssn |-> Undefined,
     healthCoverage |-> <<>>]

\* const result: ProcessingResult = {...}
NewResult ==
    [run |-> TRUE, threw |-> FALSE, processed |-> 0, errors |-> 0, warnings |-> 0,
     alerts |-> <<>>, affectedMembers |-> <<>>]

\* the call threw 'Invalid transaction type. Expected 834.'
Thrown == [NewResult EXCEPT !.threw = TRUE]

\* events.sort by effectiveDate for valid dates, ascending with sign 1 and
\* descending with sign -1; events that compare equal keep their order
RECURSIVE SortByEffectiveDate(_, _)
SortByEffectiveDate(events, sign) ==
    IF events = <<>> THEN <<>>
    ELSE LET rest == SortByEffectiveDate(SubSeq(events, 1, Len(events) - 1), sign)
             x    == events[Len(events)]
             n    == Cardinality({i \in 1..Len(rest) :
                         sign * rest[i].effectiveDate.day <= sign * x.effectiveDate.day})
         IN  SubSeq(rest, 1, n) \o <<x>> \o SubSeq(rest, n + 1, Len(rest))

\* the check for duplicate enrollments of runQualityChecks: the alert, if any
DuplicateEnrollmentAlerts(member, now) ==
    LET activeEnrollments ==
            SelectSeq(member.lifecycle,
                      LAMBDA e : e.eventType = "enrollment" /\ e.eventDate > now - 30)
    IN  IF Len(activeEnrollments) > 1
        THEN <<[type |-> "duplicate_enrollment", severity |-> "high"]>>
        ELSE <<>>

\* checkCoverageGaps(member): the alerts, in order
CoverageGapAlerts(member) ==
    LET sortedEvents ==
            SortByEffectiveDate(
                SelectSeq(member.lifecycle,
                          LAMBDA e : e.eventType \in {"enrollment", "termination"}), 1)
        gapDays(i) == sortedEvents[i].effectiveDate.day - sortedEvents[i - 1].effectiveDate.day
        gapAt(i) ==
            /\ sortedEvents[i - 1].eventType = "termination"
            /\ sortedEvents[i].eventType = "enrollment"
            /\ sortedEvents[i - 1].effectiveDate.valid
            /\ sortedEvents[i].effectiveDate.valid
            /\ gapDays(i) > 1
        places == SelectSeq([i \in 1..Len(sortedEvents) |-> i], LAMBDA i : i > 1 /\ gapAt(i))
    IN  [k \in 1..Len(places) |->
            [type |-> "gap_in_coverage",
             severity |-> IF gapDays(places[k]) > 31 THEN "high" ELSE "medium"]]

\* checkMissingTerminations(member): the alert, if any
MissingTerminationAlerts(member, now) ==
    LET enrollments == SelectSeq(member.lifecycle, LAMBDA e : e.eventType = "enrollment")
        hasTermination == \E i \in 1..Len(member.lifecycle) :
                              member.lifecycle[i].eventType = "termination"
        lastEnrollment == SortByEffectiveDate(enrollments, -1)[1]
    IN  IF /\ enrollments # <<>>
           /\ ~hasTermination
           /\ member.currentStatus = "active"
           /\ lastEnrollment.effectiveDate.valid
           /\ now - lastEnrollment.effectiveDate.day > 365
        THEN <<[type |-> "missing_termination", severity |-> "medium"]>>
        ELSE <<>>

\* runQualityChecks(memberId, result) on the tracker t, a record of the
\* registry, the result and the number of ids generated
runQualityChecks(t, memberId, now) ==
    LET found == {k \in 1..Len(t.members) : t.members[k].memberId = memberId}
        k == CHOOSE i \in found : \A j \in found : i <= j
        member == t.members[k]
        duplicate == DuplicateEnrollmentAlerts(member, now)
        raised == duplicate \o CoverageGapAlerts(member) \o MissingTerminationAlerts(member, now)
        alerts == [i \in 1..Len(raised) |->
                      MemberAlert(GenerateId(t.ids + i), raised[i].type, raised[i].severity, now)]
    IN  IF found = {} THEN t
        ELSE [members |-> [t.members EXCEPT ![k].alerts = @ \o alerts],
              result  |-> [t.result EXCEPT !.alerts =
                              @ \o [i \in 1..Len(duplicate) |->
                                       [type |-> "duplicate_enrollment", severity |-> "high",
                                        memberId |-> member.memberId]]],
              ids     |-> t.ids + Len(raised)]

\* validateDataConsistency(existingMember, newData, result): some field of
\* the new data differs from the record's
Inconsistent(existingMember, newData) ==
    \/ Truthy(newData.firstName) /\ newData.firstName # existingMember.firstName
    \/ Truthy(newData.lastName) /\ newData.lastName # existingMember.lastName
    \/ Truthy(newData.dateOfBirth) /\ newData.dateOfBirth # existingMember.dateOfBirth

\* updateExistingMember that leaves the status of the record as it was
UpdateKeepsStatus(t, k, newData, lifecycleEvent, now) ==
    LET existingMember == t.members[k]
        inconsistent == Inconsistent(existingMember, newData)
        alerts == IF inconsistent
                  THEN <<MemberAlert(GenerateId(t.ids + 1), "data_inconsistency", "medium", now)>>
                  ELSE <<>>
    IN  [members |-> [t.members EXCEPT
                         ![k].lifecycle = Append(@, lifecycleEvent),
                         ![k].lastUpdated = now,
                         ![k].healthCoverage = @ \o newData.healthCoverage,
                         ![k].alerts = @ \o alerts],
         result  |-> [t.result EXCEPT
                         !.warnings = @ + Len(alerts),
                         !.processed = @ + 1,
                         !.affectedMembers = Append(@, existingMember.id)],
         ids     |-> t.ids + Len(alerts)]

\* updateExistingMember(existingMember, newData, lifecycleEvent, result) for
\* the record at place k
updateExistingMember(t, k, newData, lifecycleEvent, now) ==
    LET existingMember == t.members[k]
        inconsistent == Inconsistent(existingMember, newData)
        alerts == IF inconsistent
                  THEN <<MemberAlert(GenerateId(t.ids + 1), "data_inconsistency", "medium", now)>>
                  ELSE <<>>
    IN  [members |-> [t.members EXCEPT
                         ![k].lifecycle = Append(@, lifecycleEvent),
                         ![k].lastUpdated = now,
                         ![k].currentStatus = determineStatus(lifecycleEvent.eventType),
                         ![k].healthCoverage = @ \o newData.healthCoverage,
                         ![k].alerts = @ \o alerts],
         result  |-> [t.result EXCEPT
                         !.warnings = @ + Len(alerts),
                         !.processed = @ + 1,
                         !.affectedMembers = Append(@, existingMember.id)],
         ids     |-> t.ids + Len(alerts)]

\* processMemberRecord(memberData, insSegment, transaction, result)
processMemberRecord(t, memberData, insSegment, tx, now) ==
    LET generated == ~Truthy(memberData.memberId)
        memberId  == IF generated THEN GenerateId(t.ids + 1) ELSE memberData.memberId
        ids1      == t.ids + (IF generated THEN 1 ELSE 0)
        maintenanceType   == OrElse(At(insSegment.elements, 3), EmptyString)
        maintenanceReason == OrElse(At(insSegment.elements, 4), EmptyString)
        lifecycleEvent ==
            [id                |-> GenerateId(ids1 + 1),
             eventType         |-> determineEventType(maintenanceType, maintenanceReason),
             eventDate         |-> now,
             effectiveDate     |-> extractEffectiveDate(tx.segments, now),
             maintenanceType   |-> maintenanceType,
             maintenanceReason |-> maintenanceReason,
             sourceTransaction |-> tx.metadata.controlNumber,
             details           |-> insSegment.raw,
             processed         |-> TRUE]
        existingMember == findMember(t.members, memberId, memberData)
        newMember ==
            [id             |-> GenerateId(ids1 + 2),
             memberId       |-> memberId,
             firstName      |-> OrElse(memberData.firstName, EmptyString),
             lastName       |-> OrElse(memberData.lastName, EmptyString),
             ssn            |-> memberData.ssn,
             dateOfBirth    |-> OrElse(memberData.dateOfBirth, EmptyString),
             gender         |-> OrElse(memberData.gender, EmptyString),
             payerId        |-> OrElse(tx.payer.id, <<"u", "n", "k", "n", "o", "w", "n">>),
             currentStatus  |-> determineStatus(lifecycleEvent.eventType),
             lifecycle      |-> <<lifecycleEvent>>,
             healthCoverage |-> memberData.healthCoverage,
             lastUpdated    |-> now,
             alerts         |-> <<>>]
        after ==
            IF existingMember # 0
            THEN updateExistingMember([t EXCEPT !.ids = ids1 + 1], existingMember,
                                      memberData, lifecycleEvent, now)
            ELSE [members |-> Append(t.members, newMember),
                  result  |-> [t.result EXCEPT
                                  !.processed = @ + 1,
                                  !.affectedMembers = Append(@, newMember.id)],
                  ids     |-> ids1 + 2]
    IN  runQualityChecks(after, memberId, now)

\* the switch of process834Transaction on the current member, which is <<>>
\* (null) or <<memberData>>, for a segment that is not an INS; n is the
\* number of ids generated so far
EnrichMemberData(currentMember, segment, n, now) ==
    IF currentMember = <<>> THEN <<>>
    ELSE CASE segment.tag = NM1 /\ At(segment.elements, 1) = <<"I", "L">> ->
                <<[currentMember[1] EXCEPT
                      !.firstName = OrElse(At(segment.elements, 4), EmptyString),
                      !.lastName  = OrElse(At(segment.elements, 3), EmptyString),
                      !.memberId  = OrElse(At(segment.elements, 9), EmptyString)]>>
           [] segment.tag = DMG ->
                <<[currentMember[1] EXCEPT
                      !.dateOfBirth = formatDate(OrElse(At(segment.elements, 2), EmptyString)),
                      !.gender      = OrElse(At(segment.elements, 3), EmptyString)]>>
           [] segment.tag = HD ->
                <<[currentMember[1] EXCEPT
                      !.healthCoverage =
                          Append(@, [id                |-> GenerateId(n + 1),
                                     insuranceLineCode |-> OrElse(At(segment.elements, 3), EmptyString),
                                     planCode          |-> OrElse(At(segment.elements, 4), EmptyString),
                                     coverageLevel     |-> OrElse(At(segment.elements, 5), EmptyString),
                                     effectiveDate     |-> DateOf(now),
                                     status            |-> "active",
                                     beneficiaryCount  |-> 1])]>>
           [] segment.tag = <<"R", "E", "F">> /\ At(segment.elements, 1) = <<"0", "F">> ->
                <<[currentMember[1] EXCEPT !.ssn = At(segment.elements, 2)]>>
           [] OTHER -> currentMember

\* for (const segment of transaction.segments) of process834Transaction and
\* the processing of the last member after it. No statement of the try
\* block throws for the segments a parser produces (every element read is
\* defaulted or compared), so the catch block never runs.
RECURSIVE ProcessSegments(_, _, _, _, _, _)
ProcessSegments(segs, t, currentMember, insSegment, tx, now) ==
    IF segs = <<>>
    THEN IF currentMember # <<>> /\ insSegment # <<>>
         THEN processMemberRecord(t, currentMember[1], insSegment[1], tx, now)
         ELSE t
    ELSE LET segment == Head(segs)
         IN  IF segment.tag = INS
             THEN ProcessSegments(Tail(segs),
                      IF currentMember # <<>> /\ insSegment # <<>>
                      THEN processMemberRecord(t, currentMember[1], insSegment[1], tx, now)
                      ELSE t,
                      <<NewMemberData>>, <<segment>>, tx, now)
             ELSE ProcessSegments(Tail(segs),
                      [t EXCEPT !.ids = @ + (IF segment.tag = HD /\ currentMember # <<>>
                                             THEN 1 ELSE 0)],
                      EnrichMemberData(currentMember, segment, t.ids, now),
                      insSegment, tx, now)

\* process834Transaction without the check of the type
Process834AnyType(mbrs, n, tx, now) ==
    ProcessSegments(tx.segments, [members |-> mbrs, result |-> NewResult, ids |-> n],
                    <<>>, <<>>, tx, now)

\* process834Transaction(transaction) on a tracker with the registry mbrs
\* that has generated n ids: the registry, the result and the number of ids
\* after the call
process834Transaction(mbrs, n, tx, now) ==
    IF tx.type # T834
    THEN [members |-> mbrs, result |-> Thrown, ids |-> n]
    ELSE ProcessSegments(tx.segments, [members |-> mbrs, result |-> NewResult, ids |-> n],
                         <<>>, <<>>, tx, now)

-----------------------------------------------------------------------------
(* The tracker as a state machine: documents are parsed by the universal   *)
(* parser and handed to process834Transaction one after the other, and the *)
(* clock advances between the calls.                                       *)

\* Most calls of process834Transaction on one tracker.
MaxCalls == 2

\* Most advances of the clock.
MaxTicks == 2

\* The days of one advance of the clock.
TickDays == 16

\* the day the tracker is constructed: 2025-09-30
StartDay == DaysFromCivil(2025, 8, 30)

T_INS_ENROLL == <<"I", "N", "S", "*", "Y", "*", "1", "8", "*", "0", "2", "1", "*", "2", "8", "*", "A">>
T_INS_TERM   == <<"I", "N", "S", "*", "Y", "*", "1", "8", "*", "0", "2", "4", "*", "0", "7", "*", "A">>
T_INS_CUT    == <<"I", "N", "S">>
T_NM1_JOHN   == <<"N", "M", "1", "*", "I", "L", "*", "1", "*", "A", "N", "D", "E", "R", "S", "O", "N", "*", "J", "O", "N", "A", "T", "H", "A", "N", "*", "Q", "*", "*", "*", "3", "4", "*", "1", "2", "3", "4", "5", "6", "7", "8", "9">>
T_NM1_JON    == <<"N", "M", "1", "*", "I", "L", "*", "1", "*", "A", "N", "D", "E", "R", "S", "E", "N", "*", "J", "O", "N", "A", "T", "H", "A", "N">>
T_NM1_MARY   == <<"N", "M", "1", "*", "I", "L", "*", "1", "*", "D", "O", "E", "*", "M", "A", "R", "Y", "*", "*", "*", "*", "3", "4", "*", "9", "8", "7", "6", "5", "4", "3", "2", "1">>
T_NM1_85     == <<"N", "M", "1", "*", "8", "5", "*", "2", "*", "C", "L", "I", "N", "I", "C">>
T_DMG        == <<"D", "M", "G", "*", "D", "8", "*", "1", "9", "8", "0", "0", "1", "0", "1", "*", "M">>
T_DMG_CUT    == <<"D", "M", "G">>
T_HD         == <<"H", "D", "*", "0", "2", "1", "*", "*", "H", "L", "T", "*", "P", "L", "A", "N", "*", "E", "M", "P">>
T_REF        == <<"R", "E", "F", "*", "0", "F", "*", "1", "1", "1", "2", "2", "3", "3", "3", "3">>
T_DTP_OLD    == <<"D", "T", "P", "*", "3", "4", "8", "*", "D", "8", "*", "2", "0", "2", "4", "0", "1", "0", "1">>
T_DTP_NEW    == <<"D", "T", "P", "*", "3", "4", "8", "*", "D", "8", "*", "2", "0", "2", "5", "0", "9", "0", "1">>

\* the documents handed to the tracker
TrkDocs ==
    {<<R_ST834, T_INS_ENROLL, T_NM1_JOHN, T_DMG, T_HD>>,
     <<R_ST834, T_INS_TERM, T_NM1_JOHN, T_DTP_NEW>>,
     <<R_ST834, T_INS_ENROLL, T_NM1_JON, T_DMG, T_REF>>,
     <<R_ST834, T_INS_ENROLL, T_NM1_MARY, T_INS_CUT, T_DMG_CUT, T_HD>>,
     <<R_ST834, T_DTP_OLD, T_INS_ENROLL, T_NM1_MARY, T_NM1_85>>,
     <<R_ST834, T_HD, T_NM1_JOHN>>,
     <<R_BGN, T_INS_ENROLL, T_NM1_JOHN>>,
     <<R_ST820, X_BPR, X_RMR, T_INS_ENROLL, T_NM1_JOHN>>,
     <<R_N1, T_INS_TERM, T_NM1_MARY>>,
     <<D_ST999, T_INS_ENROLL>>}

InitTrk ==
    /\ content = EmptyString
    /\ parsed = NotRun
    /\ parser = "none"
    /\ transaction = NotRun
    /\ validation = NotRun
    /\ segments = <<>>
    /\ extracted = NotRun
    /\ extractor = "none"
    /\ IdleRoundTrip
    /\ IdleService
    /\ registry = <<>>
    /\ result = NotRun
    /\ clock = StartDay
    /\ calls = 0
    /\ ids = 0

\* tracker.process834Transaction(parseEDIContent(document))
Process834 ==
    /\ calls < MaxCalls
    /\ \E doc \in TrkDocs :
          LET tx    == parseEDIContentUniversal(JoinLines(doc))
              after == process834Transaction(registry, ids, tx, clock)
          IN  /\ transaction' = tx
              /\ registry' = after.members
              /\ result' = after.result
              /\ ids' = after.ids
    /\ calls' = calls + 1
    /\ UNCHANGED <<tokVars, validation, extVars, rtVars, clock, svcVars>>

\* the clock advances
AdvanceClock ==
    /\ clock < StartDay + MaxTicks * TickDays
    /\ clock' = clock + TickDays
    /\ UNCHANGED <<tokVars, valVars, extVars, rtVars, registry, result, calls, ids, svcVars>>

NextTrk == Process834 \/ AdvanceClock

SpecTrk == InitTrk /\ [][NextTrk]_vars

\* C12: process834Transaction raises an error exactly when the declared
\* type of the transaction is not 834; the registry is then as it was before
\* the call; and a call with a transaction of type 834 does not raise,
\* whatever its segments hold.
C12_ThrowsOnlyOnWrongType ==
    [][calls' # calls =>
          /\ result'.threw <=> transaction'.type # T834
          /\ result'.threw => registry' = registry /\ ids' = ids
          /\ transaction'.type = T834 =>
                result'.processed = Cardinality({i \in 1..Len(transaction'.segments) :
                                                    transaction'.segments[i].tag = INS})]_vars

\* a call that threw on a tracker that holds a record, and a registry that
\* still holds it
C12_Witness ==
    /\ result.run
    /\ result.threw
    /\ transaction.type = T820
    /\ Len(registry) > 0

-----------------------------------------------------------------------------
(* The business rules of the validator, checked on the transactions of     *)
(* SpecVal.                                                                *)

\* the issues of the result whose id starts with a prefix
WithPrefix(prefix) == SelectSeq(Reported, LAMBDA e : OccursAt(e.id, prefix, 1))

\* the segments of a list of issues
SegmentsOf(issues) == [k \in 1..Len(issues) |-> issues[k].segment]

\* the NM1*IL at position i has no INS before it, or its most recent INS is
\* more than 10 positions earlier
FarFromINS(segs, i) ==
    LET before == {j \in 1..(i - 1) : segs[j].tag = INS}
    IN  /\ segs[i].tag = NM1
        /\ At(segs[i].elements, 1) = <<"I", "L">>
        /\ \A j \in before : i - j > 10

\* C22: in an 834 transaction the 'possibly orphaned' warning is given to
\* exactly the NM1 segments with code IL that have no INS before them or
\* whose most recent INS is more than 10 positions earlier, once each and in
\* order; an NM1*IL at distance 10 or less and an NM1 with another code get
\* none; and a transaction of another type gets none at all.
C22_OrphanedExactlyWhenFar ==
    validation.run =>
        LET segs    == transaction.segments
            orphans == WithPrefix(<<"o", "r", "p", "h", "a", "n", "e", "d", "-", "n", "m", "1", "-">>)
            far     == SelectSeq([i \in 1..Len(segs) |-> i], LAMBDA i : FarFromINS(segs, i))
        IN  IF transaction.type = T834
            THEN /\ SegmentsOf(orphans) = [k \in 1..Len(far) |-> segs[far[k]]]
                 /\ \A k \in 1..Len(orphans) : orphans[k].type = "warning"
            ELSE orphans = <<>>

\* an 834 transaction whose NM1*IL comes 11 positions after its INS and is
\* flagged, with an NM1 of another code before any INS that is not
C22_Witness ==
    /\ validation.run
    /\ transaction.type = T834
    /\ Len(WithPrefix(<<"o", "r", "p", "h", "a", "n", "e", "d", "-", "n", "m", "1", "-">>)) = 1
    /\ \E i \in 12..Len(transaction.segments) :
          /\ transaction.segments[i].tag = NM1
          /\ transaction.segments[i - 11].tag = INS
          /\ \A j \in (i - 10)..(i - 1) : transaction.segments[j].tag # INS
          /\ WithPrefix(<<"o", "r", "p", "h", "a", "n", "e", "d", "-", "n", "m", "1", "-">>)[1].segment = transaction.segments[i]
    /\ \E i \in 1..Len(transaction.segments) :
          /\ transaction.segments[i].tag = NM1
          /\ At(transaction.segments[i].elements, 1) = <<"8", "5">>
          /\ \A j \in 1..i : transaction.segments[j].tag # INS

\* C23: in an 820 transaction the absence of any BPR segment is reported as
\* one critical issue, and the amount warning is given to exactly the BPR
\* segments whose monetary-amount field does not match 'digits, optionally a
\* dot and exactly two digits', once each, as a warning.
C23_AmountPatternWarning ==
    (validation.run /\ transaction.type = T820) =>
        LET segs    == transaction.segments
            bpr     == SelectSeq(segs, LAMBDA s : s.tag = BPR)
            amounts == WithPrefix(<<"b", "p", "r", "-", "i", "n", "v", "a", "l", "i", "d", "-", "a", "m", "o", "u", "n", "t", "-">>)
            missing == WithId(Reported, <<"m", "i", "s", "s", "i", "n", "g", "-", "b", "p", "r">>)
        IN  /\ Len(missing) = (IF bpr = <<>> THEN 1 ELSE 0)
            /\ \A k \in 1..Len(missing) : missing[k].type = "critical"
            /\ SegmentsOf(amounts) =
                  SelectSeq(bpr, LAMBDA s : /\ At(s.elements, 2) # Undefined
                                            /\ ~IsAmount(At(s.elements, 2)))
            /\ \A k \in 1..Len(amounts) : amounts[k].type = "warning"

-----------------------------------------------------------------------------
(* The registry of the tracker, checked on the behaviours of SpecTrk.      *)

\* the record at place k of the registry is at the same place after the step
\* and has grown only at the end of its lifecycle
Stays(k) ==
    /\ k <= Len(registry')
    /\ registry'[k].id = registry[k].id
    /\ registry'[k].memberId = registry[k].memberId
    /\ Len(registry'[k].lifecycle) >= Len(registry[k].lifecycle)
    /\ SubSeq(registry'[k].lifecycle, 1, Len(registry[k].lifecycle)) = registry[k].lifecycle

\* a record matches another by name and birth date: it has the three, and
\* first and last name are similar and the birth dates equal
MatchesByName(incoming, existing) ==
    /\ Truthy(incoming.firstName)
    /\ Truthy(incoming.lastName)
    /\ Truthy(incoming.dateOfBirth)
    /\ Similar(existing.firstName, incoming.firstName)
    /\ Similar(existing.lastName, incoming.lastName)
    /\ existing.dateOfBirth = incoming.dateOfBirth

\* C27: after any sequence of process834Transaction calls no two records of
\* the registry have the same memberId; a record is created only when no
\* record already there has its member id and none matches it by name and
\* birth date; and no record is ever removed.
C27_UniqueMemberIds ==
    /\ [](\A j, k \in 1..Len(registry) :
             registry[j].memberId = registry[k].memberId => j = k)
    /\ [][/\ \A k \in 1..Len(registry) : Stays(k)
          /\ \A k \in (Len(registry) + 1)..Len(registry') :
                \A j \in 1..(k - 1) :
                    /\ registry'[j].memberId # registry'[k].memberId
                    /\ ~MatchesByName(registry'[k], registry'[j])]_vars

\* two calls: one created two records, the other found one of them by its
\* member id and created none
C27_Witness ==
    /\ calls = 2
    /\ Len(registry) = 2
    /\ \E k \in 1..Len(registry) : Len(registry[k].lifecycle) = 2

\* the status C28 maps an event type to
StatusOf(eventType) ==
    IF eventType = "termination" THEN "terminated"
    ELSE IF eventType = "cobra_election" THEN "cobra"
    ELSE "active"

\* C28: after any sequence of process834Transaction calls every record has
\* a lifecycle that is not empty and only grows at its end, and its
\* currentStatus is the status mapped from the type of its most recent
\* event: terminated for termination, cobra for cobra_election, active for
\* every other type; pending and suspended are never assigned.
C28_StatusOfLastEvent ==
    /\ [](\A k \in 1..Len(registry) :
             /\ registry[k].lifecycle # <<>>
             /\ registry[k].currentStatus
                   = StatusOf(registry[k].lifecycle[Len(registry[k].lifecycle)].eventType)
             /\ registry[k].currentStatus \in {"active", "terminated", "cobra"})
    /\ [][\A k \in 1..Len(registry) : Stays(k)]_vars

\* a record enrolled by one call and terminated by the next
C28_Witness ==
    \E k \in 1..Len(registry) :
        /\ Len(registry[k].lifecycle) = 2
        /\ registry[k].lifecycle[1].eventType = "enrollment"
        /\ registry[k].lifecycle[2].eventType = "termination"
        /\ registry[k].currentStatus = "terminated"

\* the enrollment events of a record dated within the 30 days before a day
RecentEnrollments(member, now) ==
    SelectSeq(member.lifecycle,
              LAMBDA e : e.eventType = "enrollment" /\ e.eventDate > now - 30)

\* C29: whenever a call adds a lifecycle event to a record, new or matched
\* by member id or by name and birth date, the quality checks run on that
\* record: if it then holds more than one enrollment event dated within the
\* last 30 days it has a duplicate_enrollment alert, and the result of the
\* call lists that alert.
C29_DuplicateEnrollmentAlerted ==
    [][calls' # calls =>
          \A k \in 1..Len(registry') :
              (/\ k <= Len(registry) => Len(registry'[k].lifecycle) > Len(registry[k].lifecycle)
               /\ Len(RecentEnrollments(registry'[k], clock)) > 1)
              => /\ \E a \in 1..Len(registry'[k].alerts) :
                       registry'[k].alerts[a].type = "duplicate_enrollment"
                 /\ \E a \in 1..Len(result'.alerts) :
                       /\ result'.alerts[a].type = "duplicate_enrollment"
                       /\ result'.alerts[a].memberId = registry'[k].memberId]_vars

-----------------------------------------------------------------------------
(* The two tokenizers on the interchange header, checked on SpecPay.       *)

\* the ISA lines of a document as the legacy parser splits them
LegacyISA(text) ==
    SelectSeq(parseEDIContentLegacy(text).segments, LAMBDA s : s.tag = ISA)

\* C30: for a document whose ISA lines have 16 data elements, one whose
\* repetition separator is the character ^ included, the controlNumber of
\* the metadata of the universal parser equals the controlNumber of the
\* metadata of the legacy parser.
C30_ParsersAgreeOnControlNumber ==
    (/\ parsed.run
     /\ parser = "universal"
     /\ LegacyISA(content) # <<>>
     /\ \A k \in 1..Len(LegacyISA(content)) : Len(LegacyISA(content)[k].elements) = 17)
    => parsed.metadata.controlNumber
          = parseEDIContentLegacy(content).metadata.controlNumber

-----------------------------------------------------------------------------
(* Two files of one viewer session: the parse, validate and extract calls  *)
(* of one file interleave with those of the other.  The functions keep     *)
(* everything in locals and the tables X12_FORMATS, PAYER_DATABASE and     *)
(* SEGMENT_DEFINITIONS are only read, so a call writes the slot of its own *)
(* file and nothing else.                                                  *)

\* The files open at once.
MaxOpenFiles == 2

\* the documents a file holds
PipeDocs ==
    {JoinLines(<<L_ISA, R_ST834, R_N1, X_INS, X_NM1_IL>>),
     JoinLines(<<P_ISA_16, R_ST820, P_N1_KAISER, X_BPR, X_RMR>>),
     JoinLines(<<R_BGN, X_INS, X_DMG>>),
     JoinLines(<<X_BPR, X_RMR, L_IEA>>)}

InitPipe ==
    /\ content = EmptyString
    /\ parsed = NotRun
    /\ parser = "none"
    /\ transaction = NotRun
    /\ validation = NotRun
    /\ segments = <<>>
    /\ extracted = NotRun
    /\ extractor = "none"
    /\ IdleRoundTrip
    /\ IdleTracker
    /\ pipeline \in [1..MaxOpenFiles ->
                        {[content |-> d, parsed |-> NotRun, validation |-> NotRun,
                          extracted |-> NotRun] : d \in PipeDocs}]
    /\ files = <<>>
    /\ rows = [transactions |-> <<>>, members |-> <<>>, payments |-> <<>>]
    /\ inv = <<>>

\* validateEDITransaction on the transaction the last parseEDIContent call
\* returned, whichever file it was for: the file parsed last is the other
\* one when both have been parsed
ValidateLastParsed(p, f) ==
    LET others == {g \in DOMAIN p : g # f /\ p[g].parsed.run}
        last   == IF others = {} THEN f ELSE CHOOSE g \in others : TRUE
    IN  [p EXCEPT ![f].validation = validateEDITransaction(p[last].parsed)]

\* const validation = validateEDITransaction(parsed) for file f
ValidateParsed(p, f) ==
    [p EXCEPT ![f].validation = validateEDITransaction(p[f].parsed)]

\* const parsed = parseEDIContent(file.content)
ParseFile(f) ==
    /\ ~pipeline[f].parsed.run
    /\ pipeline' = [pipeline EXCEPT ![f].parsed = parseEDIContentUniversal(pipeline[f].content)]
    /\ UNCHANGED <<tokVars, valVars, extVars, rtVars, trkVars, files, rows, inv>>

\* validateEDITransaction(parsed)
ValidateFile(f) ==
    /\ pipeline[f].parsed.run
    /\ ~pipeline[f].validation.run
    /\ pipeline' = ValidateParsed(pipeline, f)
    /\ UNCHANGED <<tokVars, valVars, extVars, rtVars, trkVars, files, rows, inv>>

\* convertEDIToJSON(parsed)
ExtractFile(f) ==
    /\ pipeline[f].parsed.run
    /\ ~pipeline[f].extracted.run
    /\ pipeline' = [pipeline EXCEPT ![f].extracted = convertEDIToJSON(pipeline[f].parsed)]
    /\ UNCHANGED <<tokVars, valVars, extVars, rtVars, trkVars, files, rows, inv>>

NextPipe ==
    \E f \in DOMAIN pipeline : ParseFile(f) \/ ValidateFile(f) \/ ExtractFile(f)

SpecPipe == InitPipe /\ [][NextPipe]_vars

-----------------------------------------------------------------------------
(* The process-edi-file handler (src/unnamed/part_009) over the tables     *)
(* edi_files, edi_transactions, edi_members and edi_payments.  A handler   *)
(* invocation gives way to the others at each await; an insert may return *)
(* an error.  Of a row only the columns below are kept.                    *)

\* The invocations of the handler.
MaxInvocations == 2
\* The rows of edi_files.
MaxFiles == 2

H_DMG_D8 == <<"D", "M", "G", "*", "D", "8">>

RECURSIVE Stored(_)
\* a file as stored: every segment ends with ~ and a line feed
Stored(lines) ==
    IF lines = <<>> THEN <<>>
    ELSE Head(lines) \o <<"~", "\n">> \o Stored(Tail(lines))

\* file_type and file_content of the files in edi_files
HdlFiles ==
    {<<T834, Stored(<<R_ST834, X_INS, T_REF, X_NM1_IL, X_DMG, T_DTP_NEW>>)>>,
     <<T834, Stored(<<R_ST834, X_INS, T_REF, X_INS_DEP, T_REF>>)>>,
     <<T834, Stored(<<R_ST834, X_INS, X_NM1_IL>>)>>,
     <<T834, Stored(<<X_INS, T_REF, H_DMG_D8>>)>>,
     <<T820, Stored(<<R_ST820, X_BPR, X_RMR>>)>>,
     <<T820, Stored(<<X_BPR, X_RMR, X_BPR_I, X_RMR>>)>>,
     <<T837, Stored(<<L_ST837, L_BHT>>)>>}

\* parseEDI(content)
parseEDI(text) ==
    LET pieces == SplitBy(text, {"~"})
        lines  == SelectSeq([k \in 1..Len(pieces) |-> Trim(pieces[k])],
                            LAMBDA line : line # EmptyString)
    IN  [k \in 1..Len(lines) |->
            LET elements == SplitBy(lines[k], {"*"})
            IN  [type |-> elements[1], elements |-> Tail(elements)]]

\* s.substring(from, to) for 0 <= from <= to
Substring(s, from, to) ==
    SubSeq(s, from + 1, IF to <= Len(s) THEN to ELSE Len(s))

\* `${d.substring(0, 4)}-${d.substring(4, 6)}-${d.substring(6, 8)}`
Dashed(d) ==
    Substring(d, 0, 4) \o <<"-">> \o Substring(d, 4, 6) \o <<"-">> \o Substring(d, 6, 8)

\* the loop of process834 from segment i on: current is the member being
\* built, if any; threw says a segment made the loop throw a TypeError
RECURSIVE Members834(_, _, _, _, _)
Members834(segs, i, transactionId, current, members) ==
    IF i > Len(segs)
    THEN [threw |-> FALSE, rows |-> members \o current]
    ELSE LET seg == segs[i]
             e   == seg.elements
             cur == current[1]
         IN  IF seg.type = INS
             THEN Members834(segs, i + 1, transactionId,
                     <<[transaction_id |-> transactionId,
                        status         |-> IF At(e, 1) = <<"Y">> THEN "active" ELSE "terminated",
                        relationship   |-> IF At(e, 1) = <<"Y">> THEN "subscriber" ELSE "dependent",
                        member_id      |-> Undefined,
                        last_name      |-> Undefined,
                        first_name     |-> Undefined,
                        date_of_birth  |-> Undefined,
                        effective_date |-> Undefined]>>,
                     members \o current)
             ELSE IF current = <<>>
             THEN Members834(segs, i + 1, transactionId, current, members)
             ELSE IF seg.type = <<"R", "E", "F">>
             THEN Members834(segs, i + 1, transactionId,
                     IF At(e, 0) = <<"0", "F">> THEN <<[cur EXCEPT !.member_id = At(e, 1)]>>
                     ELSE current,
                     members)
             ELSE IF seg.type = NM1 /\ At(e, 0) = <<"I", "L">>
             THEN Members834(segs, i + 1, transactionId,
                     <<[cur EXCEPT !.last_name = At(e, 2), !.first_name = At(e, 3)]>>,
                     members)
             ELSE IF seg.type = DMG /\ At(e, 0) = <<"D", "8">>
             THEN IF At(e, 1) = Undefined
                  THEN [threw |-> TRUE, rows |-> <<>>]
                  ELSE Members834(segs, i + 1, transactionId,
                          <<[cur EXCEPT !.date_of_birth = Dashed(At(e, 1))]>>, members)
             ELSE IF seg.type = DTP /\ At(e, 0) = <<"3", "4", "8">>
             THEN IF At(e, 2) = Undefined
                  THEN [threw |-> TRUE, rows |-> <<>>]
                  ELSE Members834(segs, i + 1, transactionId,
                          <<[cur EXCEPT !.effective_date = Dashed(At(e, 2))]>>, members)
             ELSE Members834(segs, i + 1, transactionId, current, members)

\* the rows process834 hands to the insert into edi_members
process834(segs, transactionId) == Members834(segs, 1, transactionId, <<>>, <<>>)

\* the loop of process820 from segment i on: a BPR replaces the payment
\* being built
RECURSIVE Payments820(_, _, _, _)
Payments820(segs, i, transactionId, current) ==
    IF i > Len(segs)
    THEN [threw |-> FALSE, rows |-> current]
    ELSE LET seg == segs[i]
             e   == seg.elements
             cur == current[1]
         IN  IF seg.type = BPR
             THEN Payments820(segs, i + 1, transactionId,
                     <<[transaction_id |-> transactionId,
                        payment_amount |-> parseFloat(OrElse(At(e, 1), <<"0">>)),
                        payment_method |-> At(e, 3),
                        invoice_number |-> Undefined,
                        status         |-> "posted"]>>)
             ELSE IF current # <<>> /\ seg.type = RMR
             THEN Payments820(segs, i + 1, transactionId,
                     <<[cur EXCEPT
                           !.invoice_number = At(e, 1),
                           !.payment_amount =
                               IF /\ ~@.nan
                                  /\ @.whole = 0
                                  /\ \A k \in 1..Len(@.fraction) : @.fraction[k] = "0"
                                  /\ Truthy(At(e, 3))
                               THEN parseFloat(At(e, 3))
                               ELSE @]>>)
             ELSE Payments820(segs, i + 1, transactionId, current)

\* the rows process820 hands to the insert into edi_payments
process820(segs, transactionId) == Payments820(segs, 1, transactionId, <<>>)

\* parseEDI(file.file_content) of every stored file, computed once
Parsed == [f \in HdlFiles |-> parseEDI(f[2])]

\* what process834 or process820 makes of a stored file by its file_type,
\* for every transaction id, computed once
Processing ==
    [f \in HdlFiles |->
        [t \in 1..MaxInvocations |->
            IF f[1] = T834 THEN process834(Parsed[f], t)
            ELSE IF f[1] = T820 THEN process820(Parsed[f], t)
            ELSE [threw |-> FALSE, rows |-> <<>>]]]

\* an invocation that has not received its request
Idle ==
    [pc |-> "idle", file_id |-> 0,
     file |-> [file_type |-> Undefined, file_content |-> <<>>, status |-> "none"],
     transaction_id |-> 0, status |-> 0]

InitHdl ==
    /\ content = EmptyString
    /\ parsed = NotRun
    /\ parser = "none"
    /\ transaction = NotRun
    /\ validation = NotRun
    /\ segments = <<>>
    /\ extracted = NotRun
    /\ extractor = "none"
    /\ IdleRoundTrip
    /\ IdleTracker
    /\ pipeline = <<>>
    /\ files \in [1..MaxFiles ->
                    {[file_type |-> f[1], file_content |-> f[2], status |-> "pending"] :
                        f \in HdlFiles}]
    /\ rows = [transactions |-> <<>>, members |-> <<>>, payments |-> <<>>]
    /\ inv = [i \in 1..MaxInvocations |-> Idle]

\* the catch block: the response of status 500
Caught(i) == [inv EXCEPT ![i].pc = "done", ![i].status = 500]

\* the request arrives and the file is selected by its id; no row, File not
\* found
Receive(i, id) ==
    /\ inv[i].pc = "idle"
    /\ inv' = IF id \in DOMAIN files
              THEN [inv EXCEPT ![i].pc = "selected", ![i].file_id = id, ![i].file = files[id]]
              ELSE [Caught(i) EXCEPT ![i].file_id = id]
    /\ UNCHANGED <<tokVars, valVars, extVars, rtVars, trkVars, pipeline, files, rows>>

\* update({ status: 'processing' })
MarkProcessing(i) ==
    /\ inv[i].pc = "selected"
    /\ files' = [files EXCEPT ![inv[i].file_id].status = "processing"]
    /\ inv' = [inv EXCEPT ![i].pc = "marked"]
    /\ UNCHANGED <<tokVars, valVars, extVars, rtVars, trkVars, pipeline, rows>>

\* parseEDI, extractControlInfo and the insert into edi_transactions, which
\* returns the row or an error
InsertTransaction(i) ==
    /\ inv[i].pc = "marked"
    /\ \E ok \in BOOLEAN :
          LET segs == Parsed[<<inv[i].file.file_type, inv[i].file.file_content>>]
              st   == SelectSeq(segs, LAMBDA s : s.type = ST)
              id   == Len(rows.transactions) + 1
              row  == [id               |-> id,
                       file_id          |-> inv[i].file_id,
                       transaction_type |-> IF st = <<>> THEN EmptyString
                                            ELSE OrElse(At(st[1].elements, 0), EmptyString),
                       control_number   |-> IF st = <<>> THEN EmptyString
                                            ELSE OrElse(At(st[1].elements, 1), EmptyString),
                       segment_count    |-> Len(segs)]
          IN  IF ok
              THEN /\ rows' = [rows EXCEPT !.transactions = Append(@, row)]
                   /\ inv' = [inv EXCEPT ![i].pc = "inserted", ![i].transaction_id = id]
              ELSE /\ rows' = rows
                   /\ inv' = Caught(i)
    /\ UNCHANGED <<tokVars, valVars, extVars, rtVars, trkVars, pipeline, files>>

\* process834 or process820 by file.file_type: the loop may throw, the
\* insert may return an error, and it does when a member row has no
\* member_id (NOT NULL)
ProcessType(i) ==
    /\ inv[i].pc = "inserted"
    /\ \E ok \in BOOLEAN :
          LET type == inv[i].file.file_type
              out  == Processing[<<type, inv[i].file.file_content>>][inv[i].transaction_id]
              error == /\ out.rows # <<>>
                       /\ \/ ~ok
                          \/ /\ type = T834
                             /\ \E k \in 1..Len(out.rows) : out.rows[k].member_id = Undefined
          IN  IF out.threw \/ error
              THEN /\ rows' = rows
                   /\ inv' = Caught(i)
              ELSE /\ rows' = IF type = T834
                              THEN [rows EXCEPT !.members = @ \o out.rows]
                              ELSE IF type = T820
                              THEN [rows EXCEPT !.payments = @ \o out.rows]
                              ELSE rows
                   /\ inv' = [inv EXCEPT ![i].pc = "ready"]
    /\ UNCHANGED <<tokVars, valVars, extVars, rtVars, trkVars, pipeline, files>>

\* update({ status: 'processed' }) and the response of status 200
MarkProcessed(i) ==
    /\ inv[i].pc = "ready"
    /\ files' = [files EXCEPT ![inv[i].file_id].status = "processed"]
    /\ inv' = [inv EXCEPT ![i].pc = "done", ![i].status = 200]
    /\ UNCHANGED <<tokVars, valVars, extVars, rtVars, trkVars, pipeline, rows>>

\* what an invocation does once its request has arrived
Continue(i) ==
    MarkProcessing(i) \/ InsertTransaction(i) \/ ProcessType(i) \/ MarkProcessed(i)

NextHdl ==
    \E i \in DOMAIN inv :
        \/ \E id \in 0..MaxFiles : Receive(i, id)
        \/ Continue(i)

SpecHdl == InitHdl /\ [][NextHdl]_vars

\* the runtime resumes every invocation after each await
SpecHdlFair == SpecHdl /\ \A i \in 1..MaxInvocations : WF_vars(Continue(i))

\* the segments of the handler as the segments the extractors of the viewer
\* take: the tag is element 0
AsEDISegments(segs) ==
    [k \in 1..Len(segs) |->
        LineSegment(JoinStar(<<segs[k].type>> \o segs[k].elements), k - 1, LegacyDelimiters)]

\* the rows of a table that belong to a transaction
RowsOf(table, transactionId) ==
    SelectSeq(table, LAMBDA r : r.transaction_id = transactionId)

\* C24: an invocation that has processed its file has inserted one
\* edi_payments row per BPR segment of an 820 file and one edi_members row
\* per INS segment of an 834 file: as many rows as extract820Payments or
\* extract834Members yield entities on the same segments.
C24_OneRowPerEntity ==
    \A i \in DOMAIN inv :
        (inv[i].pc \in {"ready", "done"} /\ inv[i].status # 500) =>
            LET segs == parseEDI(inv[i].file.file_content)
                same == AsEDISegments(segs)
                t    == inv[i].transaction_id
            IN  /\ inv[i].file.file_type = T820 =>
                      /\ Len(RowsOf(rows.payments, t))
                            = Len(SelectSeq(segs, LAMBDA s : s.type = BPR))
                      /\ Len(RowsOf(rows.payments, t)) = Len(extract820Payments(same))
                /\ inv[i].file.file_type = T834 =>
                      /\ Len(RowsOf(rows.members, t))
                            = Len(SelectSeq(segs, LAMBDA s : s.type = INS))
                      /\ Len(RowsOf(rows.members, t)) = Len(extract834Members(same))

\* C25: an invocation that has set the status of its file to processing
\* leads to the file having status processed or failed, also when an insert
\* fails or the processing throws.
C25_ProcessingEnds ==
    \A i \in 1..MaxInvocations :
        (inv[i].pc = "marked")
            ~> (/\ inv[i].file_id \in DOMAIN files
                /\ files[inv[i].file_id].status \in {"processed", "failed"})

\* C26: for any interleaving of invocations a file has at most one
\* edi_transactions row, its member and payment rows belong to that one
\* transaction, and a file of status processing or processed is not set to
\* processing again.
C26_ProcessedAtMostOnce ==
    /\ [](\A f \in DOMAIN files :
             Len(SelectSeq(rows.transactions, LAMBDA r : r.file_id = f)) <= 1)
    /\ [][\A i \in DOMAIN inv :
             (inv[i].pc = "selected" /\ inv'[i].pc = "marked")
                 => files[inv[i].file_id].status \notin {"processing", "processed"}]_vars

=============================================================================
